---- MODULE Spec2Model ----
(***************************************************************************)
(* Excel-Formula-Formatter: the three-mode formatter of                    *)
(* excel_formula_formatter/modular_excel_formatter.py (fold, unfold,       *)
(* mode switching) with its translators and regular expressions.           *)
(*                                                                         *)
(* A Python str is a sequence of one-character strings; "\n" is the line   *)
(* break.  A token is a record [type, text].  A translator is named by its *)
(* mode code "j", "a" or "p".                                              *)
(***************************************************************************)
EXTENDS Integers, Sequences, FiniteSets, TLC

(***************************************************************************)
(* Character classes of Python's str and re.                               *)
(***************************************************************************)
UpperChars == {"A","B","C","D","E","F","G","H","I","J","K","L","M",
               "N","O","P","Q","R","S","T","U","V","W","X","Y","Z"}

LowerChars == {"a","b","c","d","e","f","g","h","i","j","k","l","m",
               "n","o","p","q","r","s","t","u","v","w","x","y","z"}

DigitChars == {"0","1","2","3","4","5","6","7","8","9"}

\* str.isspace and the class \s
IsSpace(c) == c \in {" ", "\n", "\t", "\r"}

\* the class \w, which decides the word boundary \b
IsWordChar(c) == c \in UpperChars \/ c \in LowerChars \/ c \in DigitChars \/ c = "_"

\* str.upper on one character
UpperChar(c) ==
    CASE c = "a" -> "A" [] c = "b" -> "B" [] c = "c" -> "C" [] c = "d" -> "D"
      [] c = "e" -> "E" [] c = "f" -> "F" [] c = "g" -> "G" [] c = "h" -> "H"
      [] c = "i" -> "I" [] c = "j" -> "J" [] c = "k" -> "K" [] c = "l" -> "L"
      [] c = "m" -> "M" [] c = "n" -> "N" [] c = "o" -> "O" [] c = "p" -> "P"
      [] c = "q" -> "Q" [] c = "r" -> "R" [] c = "s" -> "S" [] c = "t" -> "T"
      [] c = "u" -> "U" [] c = "v" -> "V" [] c = "w" -> "W" [] c = "x" -> "X"
      [] c = "y" -> "Y" [] c = "z" -> "Z" [] OTHER -> c

\* str.lower on one character
LowerChar(c) ==
    CASE c = "A" -> "a" [] c = "B" -> "b" [] c = "C" -> "c" [] c = "D" -> "d"
      [] c = "E" -> "e" [] c = "F" -> "f" [] c = "G" -> "g" [] c = "H" -> "h"
      [] c = "I" -> "i" [] c = "J" -> "j" [] c = "K" -> "k" [] c = "L" -> "l"
      [] c = "M" -> "m" [] c = "N" -> "n" [] c = "O" -> "o" [] c = "P" -> "p"
      [] c = "Q" -> "q" [] c = "R" -> "r" [] c = "S" -> "s" [] c = "T" -> "t"
      [] c = "U" -> "u" [] c = "V" -> "v" [] c = "W" -> "w" [] c = "X" -> "x"
      [] c = "Y" -> "y" [] c = "Z" -> "z" [] OTHER -> c

Upper(s) == [i \in 1..Len(s) |-> UpperChar(s[i])]

Lower(s) == [i \in 1..Len(s) |-> LowerChar(s[i])]

(***************************************************************************)
(* str methods.  Indices are 1-based; Find returns 0 where Python's        *)
(* str.find returns -1.                                                    *)
(***************************************************************************)
\* first index >= i holding no whitespace (Len(s)+1 if none)
RECURSIVE SkipSpaces(_, _)
SkipSpaces(s, i) ==
    IF i <= Len(s) /\ IsSpace(s[i]) THEN SkipSpaces(s, i + 1) ELSE i

\* last index <= i holding no whitespace (0 if none)
RECURSIVE SkipSpacesBack(_, _)
SkipSpacesBack(s, i) ==
    IF i >= 1 /\ IsSpace(s[i]) THEN SkipSpacesBack(s, i - 1) ELSE i

Slice(s, from, to) == IF from > to THEN <<>> ELSE SubSeq(s, from, to)

Strip(s) == Slice(s, SkipSpaces(s, 1), SkipSpacesBack(s, Len(s)))

RStrip(s) == Slice(s, 1, SkipSpacesBack(s, Len(s)))

\* s has sub at index i
HasAt(s, sub, i) ==
    /\ i >= 1
    /\ i + Len(sub) - 1 <= Len(s)
    /\ \A k \in 1..Len(sub) : s[i + k - 1] = sub[k]

StartsWith(s, sub) == HasAt(s, sub, 1)

EndsWith(s, sub) == HasAt(s, sub, Len(s) - Len(sub) + 1)

\* the indices of s that satisfy Test, in increasing order
Positions(s, Test(_)) == SelectSeq([i \in 1..Len(s) |-> i], Test)

\* the first element of a sequence of indices, 0 if it is empty
First(indices) == IF indices = <<>> THEN 0 ELSE indices[1]

\* str.find(sub, i - 1)
Find(s, sub, i) ==
    LET at(k) == k >= i /\ HasAt(s, sub, k)
    IN  First(Positions(s, at))

Contains(s, sub) == Find(s, sub, 1) # 0

\* str.split('\n'): the pieces between the line breaks
Split(s) ==
    LET is_break(k) == s[k] = "\n"
        breaks == Positions(s, is_break)
    IN  [k \in 1..(Len(breaks) + 1) |->
            Slice(s, IF k = 1 THEN 1 ELSE breaks[k - 1] + 1,
                     IF k = Len(breaks) + 1 THEN Len(s) ELSE breaks[k] - 1)]

\* ''.join(pieces), by halves
RECURSIVE Concat(_)
Concat(pieces) ==
    IF Len(pieces) = 0 THEN <<>>
    ELSE IF Len(pieces) = 1 THEN pieces[1]
    ELSE LET h == Len(pieces) \div 2
         IN  Concat(SubSeq(pieces, 1, h)) \o Concat(SubSeq(pieces, h + 1, Len(pieces)))

\* '\n'.join(lines)
Join(lines) ==
    Concat([k \in 1..Len(lines) |-> IF k = 1 THEN lines[k] ELSE <<"\n">> \o lines[k]])

\* the characters of a sequence of strings that are not "", "" marking a
\* character that a substitution removed
Kept(chars) == SelectSeq(chars, LAMBDA c : c # "")

\* nearest index left of i holding no whitespace (0 if none)
PrevNonSpace(s, i) == SkipSpacesBack(s, i - 1)

\* nearest index right of i holding no whitespace (Len(s)+1 if none)
NextNonSpace(s, i) == SkipSpaces(s, i + 1)

\* " " * n
Spaces(n) == [i \in 1..n |-> " "]

(***************************************************************************)
(* excel_formula_patterns.py.  A match is reported by the index just after *)
(* it (1-based), 0 meaning no match.                                       *)
(***************************************************************************)
\* a value bound to a name: Body(value)
With(value, Body(_)) == Body(value)

\* index just after the longest run of characters of C starting at i
RECURSIVE SkipClass(_, _, _)
SkipClass(s, i, C) ==
    IF i <= Len(s) /\ s[i] \in C THEN SkipClass(s, i + 1, C) ELSE i

WordChars == UpperChars \cup LowerChars \cup DigitChars \cup {"_"}

\* \b between s[p-1] and s[p]
WordBoundary(s, p) ==
    (p - 1 >= 1 /\ p - 1 <= Len(s) /\ IsWordChar(s[p - 1]))
        # (p >= 1 /\ p <= Len(s) /\ IsWordChar(s[p]))

\* [A-Z]+\$?\d+ at i.  Each run is greedy; a shorter run leaves a character
\* of the same class next, which nothing after it in the pattern accepts.
CellCore(s, i) ==
    With(SkipClass(s, i, UpperChars), LAMBDA a :
    With(IF a <= Len(s) /\ s[a] = "$" THEN a + 1 ELSE a, LAMBDA b :
    With(SkipClass(s, b, DigitChars), LAMBDA c :
        IF a = i \/ c = b THEN 0 ELSE c)))

\* [A-Z]+\$?\d+(?::[A-Z]+\$?\d+)?\b at i: with the range if that matches,
\* else without it
CellTail(s, i) ==
    With(CellCore(s, i), LAMBDA c :
    With(IF c # 0 /\ c <= Len(s) /\ s[c] = ":" THEN CellCore(s, c + 1) ELSE 0, LAMBDA e :
        IF c = 0 THEN 0
        ELSE IF e # 0 /\ WordBoundary(s, e) THEN e
        ELSE IF WordBoundary(s, c) THEN c
        ELSE 0))

\* cell_ref_all_rgx.match(s, i - 1):
\* \b(?:[A-Za-z0-9_]+!)?[A-Z]+\$?\d+(?::[A-Z]+\$?\d+)?\b
cell_ref_all_rgx(s, i) ==
    With(SkipClass(s, i, WordChars), LAMBDA w :
    With(IF w > i /\ w <= Len(s) /\ s[w] = "!" THEN w + 1 ELSE i, LAMBDA from :
    With(CellTail(s, from), LAMBDA q :
        IF ~WordBoundary(s, i) THEN 0
        ELSE IF q # 0 \/ from = i THEN q
        ELSE CellTail(s, i))))

FunctionNames == {
    <<"S","U","M">>, <<"I","F">>, <<"V","L","O","O","K","U","P">>,
    <<"H","L","O","O","K","U","P">>, <<"I","N","D","E","X">>, <<"M","A","T","C","H">>,
    <<"S","U","M","I","F">>, <<"S","U","M","I","F","S">>,
    <<"C","O","U","N","T","I","F">>, <<"C","O","U","N","T","I","F","S">>,
    <<"A","V","E","R","A","G","E","I","F">>, <<"A","V","E","R","A","G","E","I","F","S">>,
    <<"L","E","N">>, <<"M","I","D">>, <<"L","E","F","T">>, <<"R","I","G","H","T">>,
    <<"F","I","N","D">>, <<"S","E","A","R","C","H">>,
    <<"S","U","B","S","T","I","T","U","T","E">>,
    <<"C","O","N","C","A","T","E","N","A","T","E">>, <<"T","E","X","T">>,
    <<"V","A","L","U","E">>, <<"D","A","T","E">>, <<"T","O","D","A","Y">>,
    <<"N","O","W">>, <<"Y","E","A","R">>, <<"M","O","N","T","H">>, <<"D","A","Y">>,
    <<"W","E","E","K","D","A","Y">>, <<"W","O","R","K","D","A","Y">>,
    <<"N","E","T","W","O","R","K","D","A","Y","S">>, <<"P","M","T">>, <<"P","V">>,
    <<"F","V">>, <<"R","A","T","E">>, <<"N","P","E","R">>, <<"N","P","V">>,
    <<"I","R","R">>, <<"A","N","D">>, <<"O","R">>, <<"N","O","T">>,
    <<"I","S","E","R","R","O","R">>, <<"I","S","B","L","A","N","K">>,
    <<"I","S","N","U","M","B","E","R">>, <<"I","S","T","E","X","T">>,
    <<"C","H","O","O","S","E">>, <<"I","N","D","I","R","E","C","T">>,
    <<"O","F","F","S","E","T">>, <<"R","O","W">>, <<"C","O","L","U","M","N">>,
    <<"R","O","W","S">>, <<"C","O","L","U","M","N","S">>, <<"C","O","U","N","T","A">>,
    <<"C","O","U","N","T">>, <<"M","A","X">>, <<"M","I","N">>,
    <<"A","V","E","R","A","G","E">>, <<"M","E","D","I","A","N">>, <<"M","O","D","E">>,
    <<"S","T","D","E","V">>, <<"V","A","R">>, <<"R","O","U","N","D">>,
    <<"R","O","U","N","D","U","P">>, <<"R","O","U","N","D","D","O","W","N">>,
    <<"I","N","T">>, <<"A","B","S">>, <<"S","Q","R","T">>, <<"P","O","W","E","R">>,
    <<"E","X","P">>, <<"L","N">>, <<"L","O","G">>, <<"L","O","G","1","0">>,
    <<"S","I","N">>, <<"C","O","S">>, <<"T","A","N">>, <<"A","S","I","N">>,
    <<"A","C","O","S">>, <<"A","T","A","N">>, <<"P","I">>, <<"R","A","N","D">>,
    <<"R","A","N","D","B","E","T","W","E","E","N">>, <<"L","E","T">>,
    <<"L","A","M","B","D","A">>, <<"M","A","P">>, <<"F","I","L","T","E","R">>,
    <<"S","O","R","T">>, <<"U","N","I","Q","U","E">>,
    <<"S","E","Q","U","E","N","C","E">>, <<"X","L","O","O","K","U","P">>,
    <<"X","M","A","T","C","H">>, <<"I","F","S">>, <<"S","W","I","T","C","H">>,
    <<"T","E","X","T","J","O","I","N">>, <<"C","O","N","C","A","T">>
    }

\* excel_functions_rgx.match(token): \b(?:SUM|IF|...)\b with re.IGNORECASE;
\* the alternatives are tried until one is followed by a word boundary
excel_functions_rgx(token) ==
    \E n \in FunctionNames :
        /\ Len(token) >= Len(n)
        /\ Upper(SubSeq(token, 1, Len(n))) = n
        /\ (Len(token) = Len(n) \/ ~IsWordChar(token[Len(n) + 1]))

\* number_rgx.match(token): \b\d+(?:\.\d+)?\b.  When the fraction cannot end
\* at a word boundary the match falls back to the integer part, which a "."
\* always bounds.
number_rgx(token) ==
    LET d == SkipClass(token, 1, DigitChars)
        f == IF d <= Len(token) /\ token[d] = "." THEN SkipClass(token, d + 1, DigitChars) ELSE 0
    IN  /\ d > 1
        /\ \/ (f > d + 1 /\ WordBoundary(token, f))
           \/ WordBoundary(token, d)

(***************************************************************************)
(* syntax_translator_base.py, javascript_translator.py and the two Excel   *)
(* translators of modular_excel_formatter.py.  tr is the mode code of the  *)
(* translator: "j" JavaScriptTranslator, "a" AnnotatedExcelTranslator,     *)
(* "p" PlainExcelTranslator.                                               *)
(***************************************************************************)
indent_size == 4

indent(depth) == Spaces(depth * indent_size)

\* SyntaxTranslatorBase.get_function_comment: comments.get(name.upper(), '')
get_function_comment(function_name) ==
    LET n == Upper(function_name) IN
    CASE n = <<"S","U","M">> ->
            <<"S","u","m"," ","v","a","l","u","e","s">>
      [] n = <<"I","F">> ->
            <<"C","o","n","d","i","t","i","o","n","a","l"," ","l","o","g","i","c">>
      [] n = <<"V","L","O","O","K","U","P">> ->
            <<"V","e","r","t","i","c","a","l"," ","l","o","o","k","u","p">>
      [] n = <<"H","L","O","O","K","U","P">> ->
            <<"H","o","r","i","z","o","n","t","a","l"," ","l","o","o","k","u","p">>
      [] n = <<"I","N","D","E","X">> ->
            <<"I","n","d","e","x"," ","l","o","o","k","u","p">>
      [] n = <<"M","A","T","C","H">> ->
            <<"F","i","n","d"," ","p","o","s","i","t","i","o","n">>
      [] n = <<"S","U","M","I","F">> ->
            <<"C","o","n","d","i","t","i","o","n","a","l"," ","s","u","m">>
      [] n = <<"S","U","M","I","F","S">> ->
            <<"M","u","l","t","i","p","l","e"," ","c","r","i","t","e","r","i","a"," ","s",
              "u","m">>
      [] n = <<"C","O","U","N","T","I","F">> ->
            <<"C","o","n","d","i","t","i","o","n","a","l"," ","c","o","u","n","t">>
      [] n = <<"C","O","U","N","T","I","F","S">> ->
            <<"M","u","l","t","i","p","l","e"," ","c","r","i","t","e","r","i","a"," ","c",
              "o","u","n","t">>
      [] n = <<"C","O","N","C","A","T","E","N","A","T","E">> ->
            <<"T","e","x","t"," ","c","o","n","c","a","t","e","n","a","t","i","o","n">>
      [] n = <<"T","E","X","T","J","O","I","N">> ->
            <<"J","o","i","n"," ","t","e","x","t"," ","w","i","t","h"," ","d","e","l","i",
              "m","i","t","e","r">>
      [] n = <<"L","E","T">> ->
            <<"V","a","r","i","a","b","l","e"," ","a","s","s","i","g","n","m","e","n","t",
              "s">>
      [] n = <<"L","A","M","B","D","A">> ->
            <<"F","u","n","c","t","i","o","n"," ","d","e","f","i","n","i","t","i","o","n">>
      [] n = <<"A","N","D">> ->
            <<"L","o","g","i","c","a","l"," ","A","N","D">>
      [] n = <<"O","R">> ->
            <<"L","o","g","i","c","a","l"," ","O","R">>
      [] n = <<"N","O","T">> ->
            <<"L","o","g","i","c","a","l"," ","N","O","T">>
      [] n = <<"F","I","L","T","E","R">> ->
            <<"F","i","l","t","e","r"," ","a","r","r","a","y">>
      [] n = <<"S","O","R","T">> ->
            <<"S","o","r","t"," ","a","r","r","a","y">>
      [] n = <<"U","N","I","Q","U","E">> ->
            <<"U","n","i","q","u","e"," ","v","a","l","u","e","s">>
      [] n = <<"X","L","O","O","K","U","P">> ->
            <<"E","x","t","e","n","d","e","d"," ","l","o","o","k","u","p">>
      [] n = <<"X","M","A","T","C","H">> ->
            <<"E","x","t","e","n","d","e","d"," ","m","a","t","c","h">>
      [] n = <<"I","F","S">> ->
            <<"M","u","l","t","i","p","l","e"," ","c","o","n","d","i","t","i","o","n","s">>
      [] OTHER -> <<>>

format_header_comment(tr) ==
    CASE tr = "j" ->
            <<"/","/"," ","E","x","c","e","l"," ","F","o","r","m","u","l","a"," ","(","J",
              "a","v","a","S","c","r","i","p","t"," ","s","y","n","t","a","x"," ","f","o",
              "r"," ","h","i","g","h","l","i","g","h","t","i","n","g",")">>
      [] tr = "a" ->
            <<"/","/"," ","E","x","c","e","l"," ","F","o","r","m","u","l","a"," ","(","a",
              "n","n","o","t","a","t","e","d"," ","E","x","c","e","l"," ","s","y","n","t",
              "a","x"," ","w","i","t","h"," ","s","m","a","r","t"," ","i","n","d","e","n",
              "t","i","n","g",")">>
      [] OTHER -> <<>>

\* format_section_comment with the plain translator emitting the comment too
format_section_comment_in_plain(tr, comment) == <<"/", "/", " ">> \o comment

format_section_comment(tr, comment) ==
    IF tr = "p" THEN <<>> ELSE <<"/", "/", " ">> \o comment

format_function_call(tr, function_name) == function_name

format_cell_reference(tr, cell_ref) ==
    IF tr = "j" THEN <<"\"">> \o cell_ref \o <<"\"">> ELSE cell_ref

format_string_literal(tr, string_val) == string_val

format_number(tr, number_val) == number_val

format_operator(tr, operator) ==
    CASE tr = "j" ->
            IF operator = <<"<", ">">> THEN <<" ", "!", "=", " ">>
            ELSE <<" ">> \o operator \o <<" ">>
      [] tr = "a" -> <<" ">> \o operator \o <<" ">>
      [] OTHER -> operator

format_punctuation(tr, punct) ==
    IF punct = <<"(">> THEN <<"(", " ">>
    ELSE IF punct = <<")">> THEN <<" ", ")">>
    ELSE punct

\* the loop of AnnotatedExcelTranslator.reverse_parse_line and of
\* _safe_remove_comments: the index of the first "//" at or after i whose
\* nearest non-space character to the left is not a comma, 0 if there is none
SafeCommentPos(line, i) ==
    LET safe_to_remove(k) ==
            /\ k >= i
            /\ HasAt(line, <<"/", "/">>, k)
            /\ LET look_back == SkipSpacesBack(line, k - 1)
               IN  ~(look_back >= 1 /\ line[look_back] = ",")
    IN  First(Positions(line, safe_to_remove))

reverse_parse_line(tr, line) ==
    CASE tr = "j" ->
            LET comment_pos == Find(line, <<"/", "/">>, 1)
            IN  IF comment_pos # 0 THEN Strip(Slice(line, 1, comment_pos - 1))
                ELSE Strip(line)
      [] tr = "a" ->
            LET comment_pos == SafeCommentPos(line, 1)
            IN  IF comment_pos # 0 THEN RStrip(Slice(line, 1, comment_pos - 1))
                ELSE Strip(line)
      [] OTHER -> Strip(line)

\* JavaScriptTranslator.reverse_parse_cell_reference:
\* re.sub(r'"[^"]*"', unquote_cell_ref, js_text).  The matches pair the quotes
\* of the text from the left, the 1st with the 2nd, the 3rd with the 4th; a
\* pair loses its two quotes when the text between them starts with a cell
\* reference.
UnquoteCellRefs(s) ==
    LET is_quote(k) == s[k] = "\""
        quotes == Positions(s, is_quote)
        unquoted(n) ==
            LET open == quotes[2 * n - 1]
                close == quotes[2 * n]
            IN  cell_ref_all_rgx(Slice(s, open + 1, close - 1), 1) # 0
        dropped == UNION {{quotes[2 * n - 1], quotes[2 * n]} :
                             n \in {m \in 1..(Len(quotes) \div 2) : unquoted(m)}}
    IN  Kept([k \in 1..Len(s) |-> IF k \in dropped THEN "" ELSE s[k]])

reverse_parse_cell_reference(tr, text) ==
    IF tr = "j" THEN UnquoteCellRefs(text) ELSE text

\* js_not_equal_rgx.sub('<>', js_text)
SubNotEqual(s) ==
    [k \in 1..Len(s) |->
        IF HasAt(s, <<"!", "=">>, k) THEN "<"
        ELSE IF HasAt(s, <<"!", "=">>, k - 1) THEN ">"
        ELSE s[k]]

reverse_parse_operator(tr, text) ==
    IF tr = "j" THEN SubNotEqual(text) ELSE text

(***************************************************************************)
(* ModularExcelFormatter._parse_excel_tokens and _classify_token.          *)
(***************************************************************************)
OperatorChars == {"+", "-", "*", "/", "=", "<", ">", "&"}

PunctuationChars == {"(", ")", ",", "[", "]", ":", ";", "!", "%", "^"}

\* the characters that end a word: '+-*/=<>(),[]:;!&%^"'
WordDelimiters == OperatorChars \cup PunctuationChars \cup {"\""}

TwoCharOperators == {<<"<", ">">>, <<">", "=">>, <<"<", "=">>}

Token(type, text) == [type |-> type, text |-> text]

classify_token(token) ==
    IF excel_functions_rgx(token) THEN "function"
    ELSE IF cell_ref_all_rgx(token, 1) # 0 THEN "cell_ref"
    ELSE IF number_rgx(token) THEN "number"
    ELSE IF token \in TwoCharOperators \cup {<<"=", "=">>, <<"!", "=">>} THEN "operator"
    ELSE "identifier"

\* index just after the word starting at i
RECURSIVE WordEnd(_, _)
WordEnd(formula, i) ==
    IF i <= Len(formula) /\ ~IsSpace(formula[i]) /\ formula[i] \notin WordDelimiters
    THEN WordEnd(formula, i + 1)
    ELSE i

\* the scan of a string literal leaving the closing quote out of the token
ScanToken_without_closing_quote(formula, i) ==
    IF formula[i] = "\"" THEN
        With(Find(formula, <<"\"">>, i + 1), LAMBDA end_quote :
            [type |-> "string",
             end |-> IF end_quote = 0 THEN Len(formula) + 1 ELSE end_quote])
    ELSE
        With(cell_ref_all_rgx(formula, i), LAMBDA cell_end :
            IF cell_end # 0 THEN [type |-> "cell_ref", end |-> cell_end]
            ELSE IF i < Len(formula) /\ SubSeq(formula, i, i + 1) \in TwoCharOperators
            THEN [type |-> "operator", end |-> i + 2]
            ELSE IF formula[i] \in OperatorChars
            THEN [type |-> "operator", end |-> i + 1]
            ELSE IF formula[i] \in PunctuationChars
            THEN [type |-> "punctuation", end |-> i + 1]
            ELSE With(WordEnd(formula, i), LAMBDA end :
                     [type |-> classify_token(SubSeq(formula, i, end - 1)), end |-> end]))

\* one iteration of the while loop of _parse_excel_tokens at a character
\* that is no whitespace: the type of the token that starts at i and the
\* index just after it
ScanToken(formula, i) ==
    IF formula[i] = "\"" THEN
        With(Find(formula, <<"\"">>, i + 1), LAMBDA end_quote :
            [type |-> "string",
             end |-> IF end_quote = 0 THEN Len(formula) + 1 ELSE end_quote + 1])
    ELSE
        With(cell_ref_all_rgx(formula, i), LAMBDA cell_end :
            IF cell_end # 0 THEN [type |-> "cell_ref", end |-> cell_end]
            ELSE IF i < Len(formula) /\ SubSeq(formula, i, i + 1) \in TwoCharOperators
            THEN [type |-> "operator", end |-> i + 2]
            ELSE IF formula[i] \in OperatorChars
            THEN [type |-> "operator", end |-> i + 1]
            ELSE IF formula[i] \in PunctuationChars
            THEN [type |-> "punctuation", end |-> i + 1]
            ELSE With(WordEnd(formula, i), LAMBDA end :
                     [type |-> classify_token(SubSeq(formula, i, end - 1)), end |-> end]))

\* the while loop of _parse_excel_tokens going on one character too far
\* after a string literal
RECURSIVE Tokenize_past_string(_, _)
Tokenize_past_string(formula, i) ==
    LET start == SkipSpaces(formula, i)
    IN  IF start > Len(formula) THEN <<>>
        ELSE LET scanned == ScanToken(formula, start)
             IN  <<Token(scanned.type, SubSeq(formula, start, scanned.end - 1))>>
                     \o Tokenize_past_string(formula,
                            IF scanned.type = "string" THEN scanned.end + 1 ELSE scanned.end)

\* the while loop of _parse_excel_tokens from index i: the tokens it appends
RECURSIVE Tokenize(_, _)
Tokenize(formula, i) ==
    LET start == SkipSpaces(formula, i)
    IN  IF start > Len(formula) THEN <<>>
        ELSE LET scanned == ScanToken(formula, start)
             IN  <<Token(scanned.type, SubSeq(formula, start, scanned.end - 1))>>
                     \o Tokenize(formula, scanned.end)

parse_excel_tokens(formula) == Tokenize(formula, 1)

(***************************************************************************)
(* The layout engine: _process_token_sequence and the per-function         *)
(* policies.  Lines are sequences of strings.  A loop that appends to a    *)
(* list is given by what each of its iterations appends.                   *)
(***************************************************************************)
\* a sequence given element by element, with its elements worked out
Elements(f) == f \o <<>>

\* the depth counters of the loops over tokens: Balance(tokens)[k] is the
\* number of "(" less the number of ")" among the first k tokens
Balance(tokens) ==
    Elements([k \in 1..Len(tokens) |->
        Cardinality({j \in 1..k : tokens[j].text = <<"(">>})
            - Cardinality({j \in 1..k : tokens[j].text = <<")">>})])

\* the loop of _extract_function_arguments ends just after the first token
\* that brings depth down to 0: its index, 0 if the loop runs to the end
MatchingParen(tokens, depth, paren_start) ==
    First(Positions(tokens, LAMBDA j : j > paren_start /\ depth[j] < depth[paren_start]))

\* _extract_function_arguments: [args, next], next being the index just
\* after the last token the loop looked at
ExtractArgs(tokens, depth, paren_start) ==
    IF tokens[paren_start].text # <<"(">> THEN [args |-> <<>>, next |-> paren_start]
    ELSE With(MatchingParen(tokens, depth, paren_start), LAMBDA close :
             IF close = 0
             THEN [args |-> Slice(tokens, paren_start + 1, Len(tokens)),
                   next |-> Len(tokens) + 1]
             ELSE [args |-> Slice(tokens, paren_start + 1, close - 1),
                   next |-> close + 1])

extract_function_arguments(tokens, paren_start) ==
    ExtractArgs(tokens, Balance(tokens), paren_start)

\* the for loop of _split_by_top_level_commas: the groups are the tokens
\* between the commas met at depth 0, an empty current_group being dropped
SplitGroups(tokens) ==
    With(Balance(tokens), LAMBDA depth :
    With(Positions(tokens, LAMBDA i :
             /\ tokens[i].text = <<",">>
             /\ (IF i = 1 THEN 0 ELSE depth[i - 1]) = 0),
         LAMBDA commas :
        SelectSeq([k \in 1..(Len(commas) + 1) |->
                      Slice(tokens,
                            IF k = 1 THEN 1 ELSE commas[k - 1] + 1,
                            IF k = Len(commas) + 1 THEN Len(tokens) ELSE commas[k] - 1)],
                  LAMBDA current_group : current_group # <<>>)))

split_by_top_level_commas(tokens) ==
    IF tokens = <<>> THEN <<>>
    ELSE SelectSeq(SplitGroups(tokens),
                   LAMBDA group : \E k \in 1..Len(group) : Strip(group[k].text) # <<>>)

\* the token-type branches of _process_token_sequence and _tokens_to_string
format_token(tr, token) ==
    CASE token.type = "cell_ref" -> format_cell_reference(tr, token.text)
      [] token.type = "string" -> format_string_literal(tr, token.text)
      [] token.type = "number" -> format_number(tr, token.text)
      [] token.type = "operator" -> format_operator(tr, token.text)
      [] token.type = "function" -> format_function_call(tr, token.text)
      [] token.type = "punctuation" /\ token.text = <<",">> ->
           format_punctuation(tr, token.text) \o <<" ">>
      [] token.type = "punctuation" -> format_punctuation(tr, token.text)
      [] OTHER -> token.text

\* _tokens_to_string
tokens_to_string(tr, tokens) ==
    Strip(Concat([i \in 1..Len(tokens) |-> format_token(tr, tokens[i])]))

\* total_length <= 40 keeps a one-argument call on one line
inline_limit == 40

\* the separator text of _process_ifs_function; "U+2500" stands for the one
\* character BOX DRAWINGS LIGHT HORIZONTAL, which is neither \s nor \w
case_result_pair ==
    <<"U+2500","U+2500"," ","C","A","S","E","/","R","E","S","U","L","T"," ","P","A","I","R"," ","U+2500","U+2500">>

\* lines with the text added to its last line (arg_lines[-1] += text)
AddToLast(lines, text) ==
    [lines EXCEPT ![Len(lines)] = lines[Len(lines)] \o text]

RECURSIVE process_token_sequence(_, _, _)

\* the for loop of _process_ifs_function putting no blank line before a
\* separator
IfsArgument_without_blank_line(tr, argument_groups, base_depth, arg_index, separator) ==
    With(process_token_sequence(tr, argument_groups[arg_index], base_depth + 1),
         LAMBDA arg_lines :
        (IF arg_index - 1 > 1 /\ (arg_index - 1) % 2 = 0 /\ separator # <<>>
         THEN << indent(base_depth + 1) \o separator >>
         ELSE <<>>)
        \o (IF arg_index - 1 < Len(argument_groups) - 1
            THEN IF arg_lines # <<>>
                 THEN AddToLast(arg_lines, format_punctuation(tr, <<",">>))
                 ELSE << indent(base_depth + 1) \o format_punctuation(tr, <<",">>) >>
            ELSE arg_lines))

\* the for loop of _process_ifs_function: what it appends for the argument
\* group arg_index (counted from 1 here)
IfsArgument(tr, argument_groups, base_depth, arg_index, separator) ==
    With(process_token_sequence(tr, argument_groups[arg_index], base_depth + 1),
         LAMBDA arg_lines :
        (IF arg_index - 1 > 1 /\ (arg_index - 1) % 2 = 0 /\ separator # <<>>
         THEN << <<>>, indent(base_depth + 1) \o separator >>
         ELSE <<>>)
        \o (IF arg_index - 1 < Len(argument_groups) - 1
            THEN IF arg_lines # <<>>
                 THEN AddToLast(arg_lines, format_punctuation(tr, <<",">>))
                 ELSE << indent(base_depth + 1) \o format_punctuation(tr, <<",">>) >>
            ELSE arg_lines))

\* _process_ifs_function
process_ifs_function(tr, func_name, arg_tokens, base_depth) ==
    With(get_function_comment(func_name), LAMBDA comment :
    With(format_section_comment(tr, comment), LAMBDA comment_line :
    With(split_by_top_level_commas(arg_tokens), LAMBDA argument_groups :
    With(format_section_comment(tr, case_result_pair), LAMBDA separator :
        (IF comment # <<>> /\ comment_line # <<>>
         THEN << indent(base_depth) \o comment_line >>
         ELSE <<>>)
        \o << indent(base_depth) \o format_function_call(tr, func_name)
                  \o format_punctuation(tr, <<"(">>) >>
        \o (IF argument_groups # <<>> /\ separator # <<>>
            THEN << indent(base_depth + 1) \o separator >>
            ELSE <<>>)
        \o Concat([arg_index \in 1..Len(argument_groups) |->
                      IfsArgument(tr, argument_groups, base_depth, arg_index, separator)])
        \o << indent(base_depth) \o format_punctuation(tr, <<")">>) >>))))

\* the while loop of _process_let_function ending every pair with a comma
LetArgument_comma_after_each(tr, argument_groups, base_depth, k) ==
    IF 2 * k <= Len(argument_groups)
    THEN << indent(base_depth + 1)
                \o Strip(tokens_to_string(tr, argument_groups[2 * k - 1]))
                \o format_punctuation(tr, <<",">>) \o <<" ">>
                \o Strip(tokens_to_string(tr, argument_groups[2 * k]))
                \o format_punctuation(tr, <<",">>) >>
    ELSE process_token_sequence(tr, argument_groups[2 * k - 1], base_depth + 1)

\* the while loop of _process_let_function: what its k-th iteration appends,
\* the iterations taking the groups two by two while two are left
LetArgument(tr, argument_groups, base_depth, k) ==
    IF 2 * k <= Len(argument_groups)
    THEN With(indent(base_depth + 1)
                  \o Strip(tokens_to_string(tr, argument_groups[2 * k - 1]))
                  \o format_punctuation(tr, <<",">>) \o <<" ">>
                  \o Strip(tokens_to_string(tr, argument_groups[2 * k])),
              LAMBDA combined_line :
             << IF 2 * k + 1 <= Len(argument_groups)
                THEN combined_line \o format_punctuation(tr, <<",">>)
                ELSE combined_line >>)
    ELSE process_token_sequence(tr, argument_groups[2 * k - 1], base_depth + 1)

\* _process_let_function
process_let_function(tr, func_name, arg_tokens, base_depth) ==
    With(get_function_comment(func_name), LAMBDA comment :
    With(format_section_comment(tr, comment), LAMBDA comment_line :
    With(split_by_top_level_commas(arg_tokens), LAMBDA argument_groups :
        (IF comment # <<>> /\ comment_line # <<>>
         THEN << indent(base_depth) \o comment_line >>
         ELSE <<>>)
        \o << indent(base_depth) \o format_function_call(tr, func_name)
                  \o format_punctuation(tr, <<"(">>) >>
        \o Concat([k \in 1..((Len(argument_groups) + 1) \div 2) |->
                      LetArgument(tr, argument_groups, base_depth, k)])
        \o << indent(base_depth) \o format_punctuation(tr, <<")">>) >>)))

\* the for loop of _process_generic_function adding a comma after the last
\* argument too
GenericArgument_comma_after_each(tr, argument_groups, base_depth, arg_index) ==
    With(process_token_sequence(tr, argument_groups[arg_index], base_depth + 1),
         LAMBDA arg_lines :
        IF arg_lines # <<>>
        THEN AddToLast(arg_lines, format_punctuation(tr, <<",">>))
        ELSE arg_lines)

\* the for loop of _process_generic_function: what it appends for the
\* argument group arg_index (counted from 1 here)
GenericArgument(tr, argument_groups, base_depth, arg_index) ==
    With(process_token_sequence(tr, argument_groups[arg_index], base_depth + 1),
         LAMBDA arg_lines :
        IF arg_index - 1 < Len(argument_groups) - 1 /\ arg_lines # <<>>
        THEN AddToLast(arg_lines, format_punctuation(tr, <<",">>))
        ELSE arg_lines)

\* _process_generic_function
process_generic_function(tr, func_name, arg_tokens, base_depth) ==
    With(SelectSeq(split_by_top_level_commas(arg_tokens), LAMBDA group : group # <<>>),
         LAMBDA argument_groups :
    With(format_function_call(tr, func_name) \o format_punctuation(tr, <<"(">>),
         LAMBDA func_open :
    With(IF argument_groups = <<>> THEN <<>>
         ELSE Strip(tokens_to_string(tr, argument_groups[1])),
         LAMBDA arg_str :
        IF argument_groups = <<>>
        THEN << indent(base_depth) \o func_open \o format_punctuation(tr, <<")">>) >>
        ELSE IF /\ Len(argument_groups) = 1
                /\ ~\E k \in 1..Len(argument_groups[1]) :
                        argument_groups[1][k].type = "function"
                /\ Len(func_name) + Len(arg_str) + 2 <= inline_limit
        THEN << indent(base_depth) \o func_open \o arg_str \o format_punctuation(tr, <<")">>) >>
        ELSE << indent(base_depth) \o func_open >>
                 \o Concat([arg_index \in 1..Len(argument_groups) |->
                               GenericArgument(tr, argument_groups, base_depth, arg_index)])
                 \o << indent(base_depth) \o format_punctuation(tr, <<")">>) >>)))

\* the dispatch on func_name.upper() in _process_token_sequence
process_function(tr, func_name, arg_tokens, base_depth) ==
    IF Upper(func_name) \in {<<"I","F","S">>, <<"S","W","I","T","C","H">>}
    THEN process_ifs_function(tr, func_name, arg_tokens, base_depth)
    ELSE IF Upper(func_name) = <<"L","E","T">>
    THEN process_let_function(tr, func_name, arg_tokens, base_depth)
    ELSE process_generic_function(tr, func_name, arg_tokens, base_depth)

\* the line that current_line gives when it is flushed, current_line holding
\* the tokens from..to: none if it is blank
RunLine(tr, tokens, base_depth, from, to) ==
    With(Strip(Concat([k \in 1..(to - from + 1) |-> format_token(tr, tokens[from + k - 1])])),
         LAMBDA current_line :
        IF current_line # <<>> THEN << indent(base_depth) \o current_line >> ELSE <<>>)

\* index just after the call that starts at each token, 0 where no call
\* starts (a function token not followed by "(" is no call)
CallEnds(tokens) ==
    With(Balance(tokens), LAMBDA depth :
        Elements([h \in 1..Len(tokens) |->
            IF /\ tokens[h].type = "function"
               /\ h + 1 <= Len(tokens)
               /\ tokens[h + 1].text = <<"(">>
            THEN ExtractArgs(tokens, depth, h + 1).next
            ELSE 0]))

\* _process_token_sequence.  The while loop jumps over the tokens of each
\* call it meets, so the calls it lays out are those that start outside all
\* earlier calls.  current_line is flushed before each of them if it is not
\* blank, and at the end; a blank current_line only holds whitespace that
\* the next flush strips.
process_token_sequence(tr, tokens, base_depth) ==
    With(CallEnds(tokens), LAMBDA call_end :
    With(Positions(tokens, LAMBDA h :
             call_end[h] # 0 /\ ~\E g \in 1..(h - 1) : h < call_end[g]),
         LAMBDA calls :
        Concat([k \in 1..(2 * Len(calls) + 1) |->
            IF k % 2 = 1
            THEN RunLine(tr, tokens, base_depth,
                         IF k = 1 THEN 1 ELSE call_end[calls[(k - 1) \div 2]],
                         IF k = 2 * Len(calls) + 1 THEN Len(tokens)
                         ELSE calls[(k + 1) \div 2] - 1)
            ELSE process_function(tr, tokens[calls[k \div 2]].text,
                     extract_function_arguments(tokens, calls[k \div 2] + 1).args,
                     base_depth)])))

\* the calls that _process_token_sequence lays out: those that start outside
\* all earlier calls
Calls(tokens) ==
    With(CallEnds(tokens), LAMBDA call_end :
        Positions(tokens, LAMBDA h :
            call_end[h] # 0 /\ ~\E g \in 1..(h - 1) : h < call_end[g]))

\* the largest of a set of numbers
Max(S) == CHOOSE x \in S : \A y \in S : y <= x

RECURSIVE stack_of_token_sequence(_, _)
\* the frames that one call of _process_generic_function, _process_ifs_function
\* or _process_let_function puts on the interpreter's stack, its own included:
\* each of them calls _split_by_top_level_commas, whose generator expression
\* is a frame of its own, and _process_token_sequence for the argument groups
\* that it lays out itself
stack_of_function(tr, func_name, arg_tokens) ==
    With(split_by_top_level_commas(arg_tokens), LAMBDA all_groups :
    With(SelectSeq(all_groups, LAMBDA group : group # <<>>), LAMBDA argument_groups :
    With(IF Upper(func_name) \in {<<"I","F","S">>, <<"S","W","I","T","C","H">>}
         THEN all_groups
         ELSE IF Upper(func_name) = <<"L","E","T">>
         THEN IF Len(all_groups) % 2 = 1 THEN << all_groups[Len(all_groups)] >> ELSE <<>>
         ELSE IF argument_groups = <<>> THEN <<>>
         ELSE IF /\ Len(argument_groups) = 1
                 /\ ~\E k \in 1..Len(argument_groups[1]) :
                         argument_groups[1][k].type = "function"
                 /\ Len(func_name)
                        + Len(Strip(tokens_to_string(tr, argument_groups[1]))) + 2
                      <= inline_limit
         THEN <<>>
         ELSE argument_groups,
         LAMBDA laid_out :
        1 + Max({2} \cup {stack_of_token_sequence(tr, laid_out[k]) :
                             k \in 1..Len(laid_out)}))))

\* the frames that one call of _process_token_sequence puts on the stack, its
\* own included: a translator method for a token, or the frames of a call
stack_of_token_sequence(tr, tokens) ==
    With(Calls(tokens), LAMBDA calls :
        1 + Max({IF tokens = <<>> THEN 0 ELSE 1}
                \cup {stack_of_function(tr, tokens[calls[k]].text,
                          extract_function_arguments(tokens, calls[k] + 1).args) :
                      k \in 1..Len(calls)}))

\* _format_tokens_with_translator
format_tokens_with_translator(tr, tokens) ==
    LET header == format_header_comment(tr)
    IN  (IF header # <<>> THEN <<header>> ELSE <<>>) \o process_token_sequence(tr, tokens, 0)

(***************************************************************************)
(* The reverse engine: _safe_remove_comments, the substitutions of         *)
(* unfold_formula and _reverse_parse_with_translator.  Each re.sub is      *)
(* given by what becomes of every character of the text.                   *)
(***************************************************************************)
\* re.match(r'^\s*(?://|#)', line)
IsCommentLine(line) ==
    LET k == SkipSpaces(line, 1)
    IN  k <= Len(line) /\ (line[k] = "#" \/ HasAt(line, <<"/", "/">>, k))

\* the loop body of _safe_remove_comments for one line that is no comment
CleanLine(line) ==
    LET comment_pos == SafeCommentPos(line, 1)
    IN  IF comment_pos # 0 THEN RStrip(Slice(line, 1, comment_pos - 1)) ELSE line

\* _safe_remove_comments: comment lines are skipped, the others are cleaned
\* and kept unless blank
safe_remove_comments(text) ==
    LET no_comment(line) == ~IsCommentLine(line)
        nonblank(line) == Strip(line) # <<>>
        lines == SelectSeq(Split(text), no_comment)
        cleaned_lines == SelectSeq([i \in 1..Len(lines) |-> CleanLine(lines[i])], nonblank)
    IN  Join(cleaned_lines)

\* a "\n" lies in the whitespace run around index i
InBreakRun(s, i) ==
    \E k \in (PrevNonSpace(s, i) + 1)..(NextNonSpace(s, i) - 1) : s[k] = "\n"

\* whitespace_newline_rgx.sub(' ', s), \s*\r?\n\s*: a whitespace run holding
\* a line break becomes one space
SubNewlines(s) ==
    Kept([i \in 1..Len(s) |->
            IF IsSpace(s[i]) /\ InBreakRun(s, i)
            THEN IF PrevNonSpace(s, i) = i - 1 THEN " " ELSE ""
            ELSE s[i]])

\* re.sub(r'\(\s+', '(', s): the whitespace after a "(" goes
SubOpenParen(s) ==
    Kept([i \in 1..Len(s) |->
            IF IsSpace(s[i]) /\ PrevNonSpace(s, i) >= 1 /\ s[PrevNonSpace(s, i)] = "("
            THEN "" ELSE s[i]])

\* re.sub(r'\s+\)', ')', s): the whitespace before a ")" goes
SubCloseParen(s) ==
    Kept([i \in 1..Len(s) |->
            IF IsSpace(s[i]) /\ NextNonSpace(s, i) <= Len(s) /\ s[NextNonSpace(s, i)] = ")"
            THEN "" ELSE s[i]])

\* re.sub(r'\s+', ' ', s): a whitespace run becomes one space
SubSpaces(s) ==
    Kept([i \in 1..Len(s) |->
            IF IsSpace(s[i]) THEN IF i > 1 /\ IsSpace(s[i - 1]) THEN "" ELSE " "
            ELSE s[i]])

\* the nearest character that is no whitespace, left or right of i, is in C
Touches(s, i, C) ==
    \/ PrevNonSpace(s, i) >= 1 /\ s[PrevNonSpace(s, i)] \in C
    \/ NextNonSpace(s, i) <= Len(s) /\ s[NextNonSpace(s, i)] \in C

\* re.sub(r'\s*,\s*', ', ', s): the whitespace around a comma goes and the
\* comma becomes ", " (index 2i-1 holds character i, index 2i what follows it)
SubCommas(s) ==
    Kept([k \in 1..(2 * Len(s)) |->
            LET i == (k + 1) \div 2
            IN  IF k % 2 = 0 THEN (IF s[i] = "," THEN " " ELSE "")
                ELSE IF IsSpace(s[i]) /\ Touches(s, i, {","}) THEN ""
                ELSE s[i]])

\* re.sub(r'\s*([+\-*/=<>!])\s*', r'\1', s): the whitespace around these goes
SubOperatorChars(s) ==
    Kept([i \in 1..Len(s) |->
            IF IsSpace(s[i]) /\ Touches(s, i, {"+", "-", "*", "/", "=", "<", ">", "!"})
            THEN "" ELSE s[i]])

\* s[j..j+1] is one of <>, >=, <=, !=
IsOperatorPair(s, j) ==
    j >= 1 /\ j + 1 <= Len(s) /\ SubSeq(s, j, j + 1) \in TwoCharOperators \cup {<<"!", "=">>}

\* the scan of re.sub matches the pair at j: the pairs found from the left do
\* not overlap, so of a chain of pairs starting at successive indices every
\* second one is matched
RECURSIVE MatchesPair(_, _)
MatchesPair(s, j) ==
    IsOperatorPair(s, j) /\ ~MatchesPair(s, j - 1)

\* re.sub(r'\s*(<>|>=|<=|!=)\s*', r'\1', s): the whitespace around a matched
\* pair goes
SubOperatorPairs(s) ==
    Kept([i \in 1..Len(s) |->
            IF IsSpace(s[i])
                 /\ (MatchesPair(s, NextNonSpace(s, i)) \/ MatchesPair(s, PrevNonSpace(s, i) - 1))
            THEN "" ELSE s[i]])

\* _reverse_parse_with_translator
reverse_parse_with_translator(tr, formatted_text) ==
    With(SubCommas(SubSpaces(SubCloseParen(SubOpenParen(
             reverse_parse_line(tr,
                 reverse_parse_operator(tr,
                     reverse_parse_cell_reference(tr, formatted_text))))))),
         LAMBDA result :
        Strip(IF tr \in {"a", "p"} THEN result
              ELSE SubOperatorPairs(SubOperatorChars(result))))

(***************************************************************************)
(* ModularExcelFormatter.fold_formula and unfold_formula.                  *)
(***************************************************************************)
ArrayOpen == <<"{", "=">>

ArrayClose == <<"}">>

\* fold_formula without its test for a blank formula
fold_formula_without_blank_test(tr, formula) ==
    With(Strip(formula), LAMBDA stripped :
    With(StartsWith(stripped, ArrayOpen) /\ EndsWith(stripped, ArrayClose),
         LAMBDA is_array_formula :
    With(IF is_array_formula THEN Slice(stripped, 3, Len(stripped) - 1)
         ELSE IF StartsWith(stripped, <<"=">>) THEN Slice(stripped, 2, Len(stripped))
         ELSE stripped,
         LAMBDA clean_formula :
    With(format_tokens_with_translator(tr, parse_excel_tokens(clean_formula)),
         LAMBDA formatted_lines :
    With(IF formatted_lines # <<>> /\ StartsWith(formatted_lines[1], <<"/", "/">>)
         THEN 1 ELSE 0,
         LAMBDA insert_index :
    With(IF is_array_formula
         THEN SubSeq(formatted_lines, 1, insert_index) \o <<ArrayOpen>>
                  \o SubSeq(formatted_lines, insert_index + 1, Len(formatted_lines))
                  \o <<ArrayClose>>
         ELSE formatted_lines,
         LAMBDA with_markers :
        IF tr = "p"
        THEN Join(SelectSeq(with_markers, LAMBDA line : Strip(line) # <<>>))
        ELSE Join(with_markers)))))))

fold_formula(tr, formula) ==
    With(Strip(formula), LAMBDA stripped :
    With(StartsWith(stripped, ArrayOpen) /\ EndsWith(stripped, ArrayClose),
         LAMBDA is_array_formula :
    With(IF is_array_formula THEN Slice(stripped, 3, Len(stripped) - 1)
         ELSE IF StartsWith(stripped, <<"=">>) THEN Slice(stripped, 2, Len(stripped))
         ELSE stripped,
         LAMBDA clean_formula :
    With(format_tokens_with_translator(tr, parse_excel_tokens(clean_formula)),
         LAMBDA formatted_lines :
    With(IF formatted_lines # <<>> /\ StartsWith(formatted_lines[1], <<"/", "/">>)
         THEN 1 ELSE 0,
         LAMBDA insert_index :
    With(IF is_array_formula
         THEN SubSeq(formatted_lines, 1, insert_index) \o <<ArrayOpen>>
                  \o SubSeq(formatted_lines, insert_index + 1, Len(formatted_lines))
                  \o <<ArrayClose>>
         ELSE formatted_lines,
         LAMBDA with_markers :
        IF stripped = <<>> THEN <<>>
        ELSE IF tr = "p"
        THEN Join(SelectSeq(with_markers, LAMBDA line : Strip(line) # <<>>))
        ELSE Join(with_markers)))))))

\* the indices of the lines that are the marker once stripped
MarkerLines(lines, marker) ==
    LET is_marker(i) == Strip(lines[i]) = marker
    IN  Positions(lines, is_marker)

\* index of the first line that is "{=", 0 if none
FirstLine(lines, marker) == First(MarkerLines(lines, marker))

\* index of the last line that is "}", 0 if none
LastLine(lines, marker) ==
    With(MarkerLines(lines, marker), LAMBDA found :
        IF found = <<>> THEN 0 ELSE found[Len(found)])

RemoveLine(lines, i) == SubSeq(lines, 1, i - 1) \o SubSeq(lines, i + 1, Len(lines))

unfold_formula(tr, formatted_text) ==
    With(Split(Strip(formatted_text)), LAMBDA lines :
    With(FirstLine(lines, ArrayOpen), LAMBDA open :
    With(IF open # 0 THEN RemoveLine(lines, open) ELSE lines, LAMBDA opened :
    With(IF open # 0 THEN LastLine(opened, ArrayClose) ELSE 0, LAMBDA close :
    With(Strip(SubNewlines(safe_remove_comments(
             Join(IF close # 0 THEN RemoveLine(opened, close) ELSE opened)))),
         LAMBDA single_line :
    With(reverse_parse_with_translator(tr, single_line), LAMBDA excel_formula :
        IF Strip(formatted_text) = <<>> THEN <<>>
        ELSE IF single_line = <<>> THEN <<>>
        ELSE IF open # 0
             THEN IF StartsWith(excel_formula, ArrayOpen) THEN excel_formula
                  ELSE ArrayOpen \o excel_formula \o ArrayClose
        ELSE IF StartsWith(excel_formula, <<"=">>) THEN excel_formula
        ELSE <<"=">> \o excel_formula))))))

\* ---------------------------------------------------------------------
\* Mode registry and mode switching
\* ---------------------------------------------------------------------

\* the interpreter's limit on the frames of its call stack
\* (sys.getrecursionlimit())
VARIABLE recursion_limit

\* fold_formula called with `frames` frames on the stack exceeds the limit:
\* a blank formula returns at once, any other goes through
\* _format_tokens_with_translator to _process_token_sequence
fold_overflows(tr, formula, frames) ==
    With(Strip(formula), LAMBDA stripped :
    With(IF StartsWith(stripped, ArrayOpen) /\ EndsWith(stripped, ArrayClose)
         THEN Slice(stripped, 3, Len(stripped) - 1)
         ELSE IF StartsWith(stripped, <<"=">>) THEN Slice(stripped, 2, Len(stripped))
         ELSE stripped,
         LAMBDA clean_formula :
        /\ stripped # <<>>
        /\ frames + 2 + stack_of_token_sequence(tr, parse_excel_tokens(clean_formula))
              > recursion_limit))

\* what a call hands back to its caller: a value, or an exception
Returns(v) == [value |-> v, raised |-> "none"]

Raises(e) == [value |-> <<>>, raised |-> e]

\* create_formatter_by_mode with the translators of modes a and p exchanged
create_formatter_by_mode_exchanged(mode) ==
    With(Strip(Lower(mode)), LAMBDA m :
        IF m = <<"j">> THEN "j"
        ELSE IF m = <<"a">> THEN "p"
        ELSE IF m = <<"p">> THEN "a"
        ELSE "ValueError")

\* mode.lower().strip() selects the translator; any other id raises
\* ValueError. The formatter is named by its translator's mode code.
create_formatter_by_mode(mode) ==
    With(Strip(Lower(mode)), LAMBDA m :
        IF m = <<"j">> THEN "j"
        ELSE IF m = <<"a">> THEN "a"
        ELSE IF m = <<"p">> THEN "p"
        ELSE "ValueError")

\* the class of the translator that the formatter of a mode is created with:
\* create_javascript_formatter, create_annotated_formatter,
\* create_plain_formatter
translator_class(formatter) ==
    CASE formatter = "j" -> "JavaScriptTranslator"
      [] formatter = "a" -> "AnnotatedExcelTranslator"
      [] formatter = "p" -> "PlainExcelTranslator"

\* get_mode_code: the isinstance tests on the translator of the formatter
get_mode_code(formatter) ==
    With(translator_class(formatter), LAMBDA translator :
        IF translator = "JavaScriptTranslator" THEN <<"j">>
        ELSE IF translator = "AnnotatedExcelTranslator" THEN <<"a">>
        ELSE IF translator = "PlainExcelTranslator" THEN <<"p">>
        ELSE <<"u", "n", "k", "n", "o", "w", "n">>)

\* the try block returning the unfolded text without folding it again
switch_attempt_unfold_only(text, current_mode, target_mode, should_refold) ==
    With(create_formatter_by_mode(current_mode), LAMBDA current_formatter :
    With(create_formatter_by_mode(target_mode), LAMBDA target_formatter :
        IF current_formatter = "ValueError" \/ target_formatter = "ValueError"
        THEN Raises("ValueError")
        ELSE Returns(unfold_formula(current_formatter, text))))

\* the body of the try block of safe_mode_switch
switch_attempt(text, current_mode, target_mode, should_refold) ==
    With(create_formatter_by_mode(current_mode), LAMBDA current_formatter :
    With(create_formatter_by_mode(target_mode), LAMBDA target_formatter :
        IF current_formatter = "ValueError" THEN Raises("ValueError")
        ELSE IF ~should_refold THEN Returns(unfold_formula(current_formatter, text))
        ELSE IF target_formatter = "ValueError" THEN Raises("ValueError")
        ELSE With(unfold_formula(current_formatter, text), LAMBDA unfolded :
                 IF fold_overflows(target_formatter, unfolded, 2)
                 THEN Raises("RecursionError")
                 ELSE Returns(fold_formula(target_formatter, unfolded)))))

\* safe_mode_switch without its except clause
safe_mode_switch_raising(text, current_mode, target_mode, should_refold) ==
    IF Strip(text) = <<>> THEN Returns(<<>>)
    ELSE IF current_mode = target_mode THEN Returns(text)
    ELSE switch_attempt(text, current_mode, target_mode, should_refold)

\* safe_mode_switch without its test for current_mode == target_mode
safe_mode_switch_always_converting(text, current_mode, target_mode, should_refold) ==
    IF Strip(text) = <<>> THEN Returns(<<>>)
    ELSE With(switch_attempt(text, current_mode, target_mode, should_refold),
              LAMBDA attempt :
             IF attempt.raised # "none" THEN Returns(text) ELSE attempt)

safe_mode_switch(text, current_mode, target_mode, should_refold) ==
    IF Strip(text) = <<>> THEN Returns(<<>>)
    ELSE IF current_mode = target_mode THEN Returns(text)
    ELSE With(switch_attempt(text, current_mode, target_mode, should_refold),
              LAMBDA attempt :
             IF attempt.raised # "none" THEN Returns(text) ELSE attempt)

\* detect_current_mode reporting 'unknown' where no branch applies
detect_current_mode_unknown_default(text) ==
    With(Split(Strip(text)), LAMBDA lines :
    With(Join(Split(Strip(text))), LAMBDA text_content :
        IF Strip(text) = <<>> THEN <<"u", "n", "k", "n", "o", "w", "n">>
        ELSE IF Len(lines) = 1 THEN <<"p">>
        ELSE IF /\ Contains(text_content, <<"/", "/">>)
                /\ Contains(text_content, <<"J", "a", "v", "a", "S", "c", "r", "i", "p", "t", " ", "s", "y", "n", "t", "a", "x">>)
        THEN <<"j">>
        ELSE IF /\ Contains(text_content, <<"/", "/">>)
                /\ Contains(text_content, <<"a", "n", "n", "o", "t", "a", "t", "e", "d", " ", "E", "x", "c", "e", "l", " ", "s", "y", "n", "t", "a", "x">>)
        THEN <<"a">>
        ELSE IF /\ Contains(text_content, <<"/", "/">>)
                /\ \/ Contains(text_content, <<"p", "l", "a", "i", "n", " ", "E", "x", "c", "e", "l", " ", "s", "y", "n", "t", "a", "x">>)
                   \/ Contains(text_content, <<"E", "x", "c", "e", "l", " ", "F", "o", "r", "m", "u", "l", "a">>)
        THEN <<"a">>
        ELSE IF \E k \in 1..Len(lines) :
                    \/ StartsWith(lines[k], <<" ", " ", " ", " ">>)
                    \/ StartsWith(lines[k], <<"\t">>)
        THEN IF /\ Contains(text_content, <<"\"">>)
                /\ \E func \in {<<"S", "U", "M">>, <<"I", "F">>,
                                 <<"V", "L", "O", "O", "K", "U", "P">>} :
                       Contains(text_content, func)
             THEN <<"j">>
             ELSE <<"a">>
        ELSE <<"u", "n", "k", "n", "o", "w", "n">>))

\* detect_current_mode
detect_current_mode(text) ==
    With(Split(Strip(text)), LAMBDA lines :
    With(Join(Split(Strip(text))), LAMBDA text_content :
        IF Strip(text) = <<>> THEN <<"u", "n", "k", "n", "o", "w", "n">>
        ELSE IF Len(lines) = 1 THEN <<"p">>
        ELSE IF /\ Contains(text_content, <<"/", "/">>)
                /\ Contains(text_content, <<"J", "a", "v", "a", "S", "c", "r", "i", "p", "t", " ", "s", "y", "n", "t", "a", "x">>)
        THEN <<"j">>
        ELSE IF /\ Contains(text_content, <<"/", "/">>)
                /\ Contains(text_content, <<"a", "n", "n", "o", "t", "a", "t", "e", "d", " ", "E", "x", "c", "e", "l", " ", "s", "y", "n", "t", "a", "x">>)
        THEN <<"a">>
        ELSE IF /\ Contains(text_content, <<"/", "/">>)
                /\ \/ Contains(text_content, <<"p", "l", "a", "i", "n", " ", "E", "x", "c", "e", "l", " ", "s", "y", "n", "t", "a", "x">>)
                   \/ Contains(text_content, <<"E", "x", "c", "e", "l", " ", "F", "o", "r", "m", "u", "l", "a">>)
        THEN <<"a">>
        ELSE IF \E k \in 1..Len(lines) :
                    \/ StartsWith(lines[k], <<" ", " ", " ", " ">>)
                    \/ StartsWith(lines[k], <<"\t">>)
        THEN IF /\ Contains(text_content, <<"\"">>)
                /\ \E func \in {<<"S", "U", "M">>, <<"I", "F">>,
                                 <<"V", "L", "O", "O", "K", "U", "P">>} :
                       Contains(text_content, func)
             THEN <<"j">>
             ELSE <<"a">>
        ELSE <<"p">>))

\* ' '.join(line.strip() for line in lines if line.strip())
JoinStripped(lines) ==
    With(SelectSeq([k \in 1..Len(lines) |-> Strip(lines[k])], LAMBDA line : line # <<>>),
         LAMBDA stripped :
        Concat([k \in 1..Len(stripped) |->
                   IF k = 1 THEN stripped[k] ELSE <<" ">> \o stripped[k]]))

\* line.startswith('=') or line.startswith('{=')
LooksLikeFormula(line) == StartsWith(line, <<"=">>) \/ StartsWith(line, <<"{", "=">>)

\* fold_formula called from auto_format_with_mode
auto_fold(formatter, line) ==
    IF fold_overflows(formatter, line, 2)
    THEN Raises("RecursionError")
    ELSE Returns(fold_formula(formatter, line))

\* auto_format_with_mode
auto_format_with_mode(input_text, mode_id) ==
    IF Strip(input_text) = <<>> THEN Returns(<<>>)
    ELSE
    With(create_formatter_by_mode(mode_id), LAMBDA formatter :
    With(Split(Strip(input_text)), LAMBDA lines :
        IF formatter = "ValueError" THEN Raises("ValueError")
        ELSE IF Len(lines) = 1
        THEN IF LooksLikeFormula(Strip(lines[1]))
             THEN auto_fold(formatter, Strip(lines[1]))
             ELSE Returns(input_text)
        ELSE IF \/ \E k \in 1..Len(lines) : Contains(lines[k], <<"/", "/">>)
                \/ \E k \in 1..Len(lines) :
                       \/ StartsWith(lines[k], <<" ", " ", " ", " ">>)
                       \/ StartsWith(lines[k], <<"\t">>)
        THEN Returns(unfold_formula(formatter, input_text))
        ELSE IF LooksLikeFormula(JoinStripped(lines))
        THEN auto_fold(formatter, JoinStripped(lines))
        ELSE Returns(input_text)))

\* ---------------------------------------------------------------------
\* Sessions: a caller folds a formula, switches modes, unfolds it again
\* ---------------------------------------------------------------------

\* mode switches applied to one folded text
MaxSwitches == 3

\* fold/unfold cycles of one session
MaxCycles == 2

\* mode identifiers a caller passes: the registered ones, one that needs
\* trimming and lower-casing, and an unknown one
ModeIds == {<<"j">>, <<"a">>, <<"p">>, <<" ", "J">>, <<"x">>}

\* input texts of the sessions
Formulas == {
    \* empty input
    <<>>,
    \* whitespace-only input
    <<" ">>,
    \* =SUM(A1:B2)
    <<"=", "S", "U", "M", "(", "A", "1", ":", "B", "2", ")">>,
    \* =A1+B1*2
    <<"=", "A", "1", "+", "B", "1", "*", "2">>,
    \* =IF(A1<>B1,"x","y")
    <<"=", "I", "F", "(", "A", "1", "<", ">", "B", "1", ",", "\"", "x", "\"", ",", "\"", "y", "\"", ")">>,
    \* =AND(NOT(a),NOT(b),NOT(c),d,e)
    <<"=", "A", "N", "D", "(", "N", "O", "T", "(", "a", ")", ",", "N", "O", "T", "(", "b", ")", ",", "N", "O", "T", "(", "c", ")", ",", "d", ",", "e", ")">>,
    \* =IFS(A1>1,"a",A1<=2,"b")
    <<"=", "I", "F", "S", "(", "A", "1", ">", "1", ",", "\"", "a", "\"", ",", "A", "1", "<", "=", "2", ",", "\"", "b", "\"", ")">>,
    \* =SWITCH(A1,1,"a",2,"b")
    <<"=", "S", "W", "I", "T", "C", "H", "(", "A", "1", ",", "1", ",", "\"", "a", "\"", ",", "2", ",", "\"", "b", "\"", ")">>,
    \* =IFS(A1,LET(x,1,x),B1,2)
    <<"=", "I", "F", "S", "(", "A", "1", ",", "L", "E", "T", "(", "x", ",", "1", ",", "x", ")", ",", "B", "1", ",", "2", ")">>,
    \* a call without its closing parenthesis: =SUM(A1,B1
    <<"=", "S", "U", "M", "(", "A", "1", ",", "B", "1">>,
    \* a function name that is also of the form of a cell reference: =LOG10(A1,B1)
    <<"=", "L", "O", "G", "1", "0", "(", "A", "1", ",", "B", "1", ")">>,
    \* a word that starts with a function name: =SUM.x(A1,B1)
    <<"=", "S", "U", "M", ".", "x", "(", "A", "1", ",", "B", "1", ")">>,
    \* =LET(x,1,y,2,x+y)
    <<"=", "L", "E", "T", "(", "x", ",", "1", ",", "y", ",", "2", ",", "x", "+", "y", ")">>,
    \* =VLOOKUP(A1,Sheet1!A1:B9,2,0)
    <<"=", "V", "L", "O", "O", "K", "U", "P", "(", "A", "1", ",", "S", "h", "e", "e", "t", "1", "!", "A", "1", ":", "B", "9", ",", "2", ",", "0", ")">>,
    \* =IF(SUM(A1:A9)>=10,MAX(B1,C1),0)
    <<"=", "I", "F", "(", "S", "U", "M", "(", "A", "1", ":", "A", "9", ")", ">", "=", "1", "0", ",", "M", "A", "X", "(", "B", "1", ",", "C", "1", ")", ",", "0", ")">>,
    \* {=SUM(A1:A3*B1:B3)}
    <<"{", "=", "S", "U", "M", "(", "A", "1", ":", "A", "3", "*", "B", "1", ":", "B", "3", ")", "}">>,
    \* {=IF(A1<>0,SUM(B1:B9),0)}
    <<"{", "=", "I", "F", "(", "A", "1", "<", ">", "0", ",", "S", "U", "M", "(", "B", "1", ":", "B", "9", ")", ",", "0", ")", "}">>,
    \* {=#N/A}
    <<"{", "=", "#", "N", "/", "A", "}">>,
    \* =IF(A1="B2",1,2)
    <<"=", "I", "F", "(", "A", "1", "=", "\"", "B", "2", "\"", ",", "1", ",", "2", ")">>,
    \* {=INDIRECT("A1")}
    <<"{", "=", "I", "N", "D", "I", "R", "E", "C", "T", "(", "\"", "A", "1", "\"", ")", "}">>,
    \* =IF(A1,,B1)
    <<"=", "I", "F", "(", "A", "1", ",", ",", "B", "1", ")">>,
    \* ="A1 x"
    <<"=", "\"", "A", "1", " ", "x", "\"">>,
    \* =IF(A1="a!=b",1,2)
    <<"=", "I", "F", "(", "A", "1", "=", "\"", "a", "!", "=", "b", "\"", ",", "1", ",", "2", ")">>,
    \* =IF(A1,", //x",1)
    <<"=", "I", "F", "(", "A", "1", ",", "\"", ",", " ", "/", "/", "x", "\"", ",", "1", ")">>,
    \* =A1/B1/2
    <<"=", "A", "1", "/", "B", "1", "/", "2">>,
    \* =COUNTA(A1+B1+C1+D1+E1+F1+G1)
    <<"=", "C", "O", "U", "N", "T", "A", "(", "A", "1", "+", "B", "1", "+", "C", "1", "+", "D", "1", "+", "E", "1", "+", "F", "1", "+", "G", "1", ")">>,
    \* =LET(x,A1,y,LET(z,1),x+y)
    <<"=", "L", "E", "T", "(", "x", ",", "A", "1", ",", "y", ",", "L", "E", "T", "(", "z", ",", "1", ")", ",", "x", "+", "y", ")">>,
    \* a bare =
    <<"=">>,
    \* =IF(A1,"http://x",1)
    <<"=", "I", "F", "(", "A", "1", ",", "\"", "h", "t", "t", "p", ":", "/", "/", "x", "\"", ",", "1", ")">>,
    \* a folded text with a note after an argument: SUM(\n    A1, // note\n    B1\n)
    <<"S", "U", "M", "(", "\n", " ", " ", " ", " ", "A", "1", ",", " ", "/", "/", " ", "n", "o", "t", "e", "\n", " ", " ", " ", " ", "B", "1", "\n", ")">>,
    \* an unterminated quote and missing parentheses: =SUM((A1,"x
    <<"=", "S", "U", "M", "(", "(", "A", "1", ",", "\"", "x">>,
    \* an extra parenthesis and unrecognized characters: =MAX(A1))+@~B1
    <<"=", "M", "A", "X", "(", "A", "1", ")", ")", "+", "@", "~", "B", "1">>,
    \* =HYPERLINK("http://x")
    <<"=", "H", "Y", "P", "E", "R", "L", "I", "N", "K", "(", "\"", "h", "t", "t", "p", ":", "/", "/", "x", "\"", ")">>
}

VARIABLES
    formula,    \* the text the session started with
    source,     \* the formula handed to the latest fold
    text,       \* the current text
    mode,       \* the mode identifier the caller holds for the text
    chain,      \* modes of the current text since its fold: m0, m1, ...
    cycles,     \* folds done so far
    op,         \* the latest call
    from_text,  \* the text handed to the latest call
    from_mode,  \* the mode identifier held before the latest call
    to_mode,    \* the mode identifier handed to the latest call
    error,      \* the exception the latest call raised to the caller
    detected,   \* what the latest detect_current_mode returned
    translation,\* the token last rendered by the translator, its rendering
                \* and what the reverse operations make of the rendering
    layout      \* the call last laid out: translator, function name,
                \* argument tokens, depth and the lines returned

\* no token rendered yet
NoTranslation ==
    [type |-> "none", text |-> <<>>, rendered |-> <<>>,
     cell_reference |-> <<>>, operator |-> <<>>]

\* no call laid out yet
NoLayout ==
    [translator |-> "none", func_name |-> <<>>, arg_tokens |-> <<>>,
     base_depth |-> 0, call |-> 0, lines |-> <<>>]

\* the deepest base_depth at which a call is laid out
MaxDepth == 2

vars == <<formula, source, text, mode, chain, cycles, op, from_text, from_mode, to_mode,
          error, detected, recursion_limit, translation,
          layout>>

Init ==
    /\ formula \in Formulas
    /\ source = formula
    /\ text = formula
    /\ mode \in ModeIds
    /\ chain = <<>>
    /\ cycles = 0
    /\ op = "none"
    /\ from_text = formula
    /\ from_mode = mode
    /\ to_mode = mode
    /\ error = "none"
    /\ detected = <<>>
    /\ recursion_limit = 1000
    /\ translation = NoTranslation
    /\ layout = NoLayout

\* ModularExcelFormatter.create_formatter_by_mode(m).fold_formula(text)
Fold(m) ==
    /\ error = "none"
    /\ op = "none" \/ (op = "unfold" /\ chain # <<>>)
    /\ cycles < MaxCycles
    /\ cycles = 0 \/ (m = mode /\ Len(chain) = 1)
    /\ op' = "fold"
    /\ from_text' = text
    /\ from_mode' = mode
    /\ to_mode' = m
    /\ UNCHANGED <<formula, detected, recursion_limit, translation, layout>>
    /\ \E formatter \in {create_formatter_by_mode(m)} :
          IF formatter = "ValueError"
          THEN /\ error' = "ValueError"
               /\ UNCHANGED <<source, text, mode, chain, cycles>>
          ELSE IF fold_overflows(formatter, text, 1)
          THEN /\ error' = "RecursionError"
               /\ UNCHANGED <<source, text, mode, chain, cycles>>
          ELSE /\ error' = "none"
               /\ text' = fold_formula(formatter, text)
               /\ source' = text
               /\ mode' = m
               /\ chain' = <<m>>
               /\ cycles' = cycles + 1

\* ModularExcelFormatter.create_formatter_by_mode(mode).unfold_formula(text)
Unfold ==
    /\ error = "none"
    /\ op = "none" \/ (op \in {"fold", "switch"} /\ chain # <<>>)
    /\ op' = "unfold"
    /\ from_text' = text
    /\ from_mode' = mode
    /\ to_mode' = mode
    /\ UNCHANGED <<formula, source, mode, chain, cycles, detected, recursion_limit, translation, layout>>
    /\ \E formatter \in {create_formatter_by_mode(mode)} :
          IF formatter = "ValueError"
          THEN /\ error' = "ValueError"
               /\ text' = text
          ELSE /\ error' = "none"
               /\ text' = unfold_formula(formatter, text)

\* text = safe_mode_switch(text, mode, target_mode, should_refold=True),
\* after which the caller holds target_mode
Switch(target_mode) ==
    /\ error = "none"
    /\ \/ op = "none"
       \/ /\ op \in {"fold", "switch"}
          /\ chain # <<>>
          /\ cycles = 1
          /\ Len(chain) <= MaxSwitches
    /\ \E outcome \in {safe_mode_switch(text, mode, target_mode, TRUE)} :
          /\ error' = outcome.raised
          /\ text' = IF outcome.raised = "none" THEN outcome.value ELSE text
          /\ mode' = IF outcome.raised = "none" THEN target_mode ELSE mode
    /\ chain' = IF chain = <<>> THEN chain ELSE Append(chain, target_mode)
    /\ op' = "switch"
    /\ from_text' = text
    /\ from_mode' = mode
    /\ to_mode' = target_mode
    /\ UNCHANGED <<formula, source, cycles, detected, recursion_limit, translation, layout>>

\* detect_current_mode(text)
Detect ==
    /\ error = "none"
    /\ op \in {"none", "fold", "unfold"}
    /\ op' = "detect"
    /\ detected' = detect_current_mode(text)
    /\ from_text' = text
    /\ from_mode' = mode
    /\ to_mode' = mode
    /\ UNCHANGED <<formula, source, text, mode, chain, cycles, error, recursion_limit, translation, layout>>

\* the translator of the current mode renders one token of the text with the
\* method of its kind, and each of its two reverse operations is applied to
\* the rendering
Translate ==
    /\ error = "none"
    /\ op = "none"
    /\ op' = "translate"
    /\ \E formatter \in {create_formatter_by_mode(mode)} :
          /\ formatter # "ValueError"
          /\ \E tokens \in {parse_excel_tokens(text)} :
                \E k \in 1..Len(tokens) :
                   /\ tokens[k].type # "punctuation"
                   /\ \E rendered \in {format_token(formatter, tokens[k])} :
                         translation' =
                             [type |-> tokens[k].type,
                              text |-> tokens[k].text,
                              rendered |-> rendered,
                              cell_reference |->
                                  reverse_parse_cell_reference(formatter, rendered),
                              operator |-> reverse_parse_operator(formatter, rendered)]
    /\ from_text' = text
    /\ from_mode' = mode
    /\ to_mode' = mode
    /\ UNCHANGED <<formula, source, text, mode, chain, cycles, error, detected,
                   recursion_limit, layout>>

\* the dispatch of _process_token_sequence lays out one call of the text, at
\* any nesting, with the layout policy of its function at base_depth
Layout(base_depth) ==
    /\ error = "none"
    /\ op = "none"
    /\ op' = "layout"
    /\ \E formatter \in {create_formatter_by_mode(mode)} :
          /\ formatter # "ValueError"
          /\ \E tokens \in {parse_excel_tokens(text)} :
                \E h \in 1..Len(tokens) :
                   /\ CallEnds(tokens)[h] # 0
                   /\ \E arg_tokens \in {extract_function_arguments(tokens, h + 1).args} :
                         layout' =
                             [translator |-> formatter,
                              func_name |-> tokens[h].text,
                              arg_tokens |-> arg_tokens,
                              base_depth |-> base_depth,
                              call |-> h,
                              lines |-> process_function(formatter, tokens[h].text,
                                                         arg_tokens, base_depth)]
    /\ from_text' = text
    /\ from_mode' = mode
    /\ to_mode' = mode
    /\ UNCHANGED <<formula, source, text, mode, chain, cycles, error, detected,
                   recursion_limit, translation>>

\* text = auto_format_with_mode(text, mode): auto_toggle of the editor, at
\* most twice in a session that has done nothing else
AutoFormat ==
    /\ error = "none"
    /\ op = "none" \/ (op = "auto" /\ cycles = 1)
    /\ op' = "auto"
    /\ from_text' = text
    /\ from_mode' = mode
    /\ to_mode' = mode
    /\ UNCHANGED <<formula, source, mode, chain, detected, recursion_limit, translation, layout>>
    /\ \E result \in {auto_format_with_mode(text, mode)} :
          IF result.raised # "none"
          THEN /\ error' = result.raised
               /\ UNCHANGED <<text, cycles>>
          ELSE /\ error' = "none"
               /\ text' = result.value
               /\ cycles' = cycles + 1

Next ==
    \/ \E m \in ModeIds : Fold(m)
    \/ Unfold
    \/ Detect
    \/ Translate
    \/ AutoFormat
    \/ \E base_depth \in 0..MaxDepth : Layout(base_depth)
    \/ \E target_mode \in ModeIds : Switch(target_mode)

Spec == Init /\ [][Next]_vars

\* a recursion limit that the nested calls of the formulas reach
LowRecursionLimit == 7

\* the state after construction under an interpreter whose recursion limit
\* was lowered (sys.setrecursionlimit)
LowStackInit ==
    /\ formula \in Formulas
    /\ source = formula
    /\ text = formula
    /\ mode \in ModeIds
    /\ chain = <<>>
    /\ cycles = 0
    /\ op = "none"
    /\ from_text = formula
    /\ from_mode = mode
    /\ to_mode = mode
    /\ error = "none"
    /\ detected = <<>>
    /\ recursion_limit = LowRecursionLimit
    /\ translation = NoTranslation
    /\ layout = NoLayout

LowStackSpec == LowStackInit /\ [][Next]_vars

\* ---------------------------------------------------------------------
\* Properties of the sessions
\* ---------------------------------------------------------------------

\* the registered mode identifiers are those create_formatter_by_mode takes
IsRegistered(m) == create_formatter_by_mode(m) # "ValueError"

\* every mode of the chain is a registered one
RegisteredChain == \A i \in 1..Len(chain) : IsRegistered(chain[i])

\* normalize_formula of the round-trip tests, all whitespace ignored
Normalized(s) ==
    With(SelectSeq(s, LAMBDA c : ~IsSpace(c)), LAMBDA packed :
        IF StartsWith(packed, <<"=">>) THEN Tail(packed) ELSE packed)

\* number of places where sub occurs in s
Occurrences(s, sub) == Cardinality({i \in 1..Len(s) : HasAt(s, sub, i)})

\* number of argument separators of a formula: its "," tokens
Separators(s) ==
    Len(SelectSeq(parse_excel_tokens(s), LAMBDA token :
            token.type = "punctuation" /\ token.text = <<",">>))

\* the session has folded the formula once in a registered mode and has
\* unfolded the folded text with the same formatter
RoundTripDone ==
    op = "unfold" /\ error = "none" /\ cycles = 1 /\ Len(chain) = 1

\* C1: for every formula F and registered mode M, unfold(M, fold(M, F))
\* equals F after normalization (leading "=" stripped, whitespace ignored)
RoundTrip ==
    RoundTripDone => Normalized(text) = Normalized(formula)

\* C2: the formula that unfold(M, fold(M, F)) gives has as many argument
\* separators as F, also after a second fold/unfold cycle
CommaConservation ==
    (op = "unfold" /\ error = "none" /\ Len(chain) = 1)
        => Separators(text) = Separators(formula)

\* the text is a folded one that a session has switched at least once, all
\* modes registered, the fold in a comment-bearing mode, the mode now plain
SwitchedToPlain ==
    /\ op = "switch" /\ error = "none"
    /\ Len(chain) >= 2 /\ RegisteredChain
    /\ chain[1] \in {<<"j">>, <<"a">>}
    /\ mode = <<"p">>

\* two "/" of s are adjacent or have only whitespace between them
SlashPair(s) ==
    \E i \in 1..Len(s) :
        s[i] = "/" /\ SkipSpaces(s, i + 1) <= Len(s) /\ s[SkipSpaces(s, i + 1)] = "/"

IsArrayFormula(s) ==
    StartsWith(Strip(s), ArrayOpen) /\ EndsWith(Strip(s), ArrayClose)

\* a folded text carries the "{=" and the "}" marker lines
CarriesMarkers(s) ==
    FirstLine(Split(s), ArrayOpen) # 0 /\ LastLine(Split(s), ArrayClose) # 0

\* s without its whitespace
Packed(s) == SelectSeq(s, LAMBDA c : ~IsSpace(c))

\* C4: for an array formula {=body} folded in a registered mode and switched
\* among j, a, p, every folded text carries the "{=" and "}" marker lines
\* and the final unfold returns {=body}, whitespace ignored
ArrayWrapperPreserved ==
    (IsArrayFormula(formula) /\ error = "none" /\ cycles = 1 /\ RegisteredChain)
        => /\ op \in {"fold", "switch"} => CarriesMarkers(text)
           /\ op = "unfold" => Packed(text) = Packed(formula)

\* C5: for every formula F folded in mode m0 and switched through registered
\* modes m1..mk, k >= 1, the final unfold in mode mk equals F after
\* normalization
ChainIntegrity ==
    (op = "unfold" /\ error = "none" /\ cycles = 1 /\ Len(chain) >= 2 /\ RegisteredChain)
        => Normalized(text) = Normalized(formula)

\* C6: a second fold and unfold of unfold(M, fold(M, F)) in the same mode
\* returns the same string
UnfoldIdempotent ==
    (op = "unfold" /\ error = "none" /\ cycles = 2) => text = source

\* number of "<>" operators of a formula
NotEqualOperators(s) ==
    Len(SelectSeq(parse_excel_tokens(s), LAMBDA token :
            token.type = "operator" /\ token.text = <<"<", ">">>))

\* C7: in mode j the folded text has a "!=" for every "<>" operator of the
\* formula, and the unfolded formula has "<>" where the formula had it and
\* its other text as it was
NotEqualRestored ==
    (error = "none" /\ cycles = 1 /\ chain = << <<"j">> >>)
        => /\ op = "fold" =>
                Occurrences(text, <<"!", "=">>)
                    = NotEqualOperators(formula) + Occurrences(formula, <<"!", "=">>)
           /\ op = "unfold" =>
                /\ Occurrences(text, <<"<", ">">>) = Occurrences(formula, <<"<", ">">>)
                /\ Occurrences(text, <<"!", "=">>) = Occurrences(formula, <<"!", "=">>)

\* fold(b, unfold(a, T)) with the formatters of the registered modes a, b
Composition(T, a, b) ==
    fold_formula(create_formatter_by_mode(b),
                 unfold_formula(create_formatter_by_mode(a), T))

SwitchWithUnregistered ==
    op = "switch" /\ (~IsRegistered(from_mode) \/ ~IsRegistered(to_mode))

\* what safe_mode_switch returns when it does not convert the text
Untouched(T) == IF Strip(T) = <<>> THEN <<>> ELSE T

SwitchToSameMode == op = "switch" /\ from_mode = to_mode

\* C10, as claimed: for every text T and mode m a switch from m to m
\* returns T unchanged
SameModeReturnsInput ==
    SwitchToSameMode => error = "none" /\ text = from_text

\* C10, amended: for every text T that is not blank a switch from m to m
\* returns T unchanged; for a blank T it returns the empty string
SameModeReturnsNonBlankInput ==
    SwitchToSameMode =>
        /\ error = "none"
        /\ Strip(from_text) # <<>> => text = from_text
        /\ Strip(from_text) = <<>> => text = <<>>

\* a folded text switched to its own mode
SameModeWitness ==
    /\ SwitchToSameMode /\ error = "none"
    /\ Len(chain) >= 2
    /\ text = from_text /\ Contains(text, <<"\n">>)

\* the latest call asked for the formatter of to_mode to fold or unfold
FormatterAsked == op \in {"fold", "unfold"}

\* C11: obtaining a formatter for fold or unfold fails with the invalid-mode
\* error exactly when the identifier, trimmed and lower-cased, is none of
\* j, a, p; otherwise the mode code of the formatter is that identifier
FormatterByMode ==
    FormatterAsked =>
        /\ error = "ValueError"
              <=> Strip(Lower(to_mode)) \notin {<<"j">>, <<"a">>, <<"p">>}
        /\ error = "none"
              => get_mode_code(create_formatter_by_mode(to_mode)) = Strip(Lower(to_mode))

\* a fold with an identifier that is registered only once trimmed and
\* lower-cased
FormatterByModeWitness ==
    /\ op = "fold" /\ error = "none"
    /\ to_mode = <<" ", "J">>
    /\ StartsWith(text, <<"/", "/">>)
    /\ get_mode_code(create_formatter_by_mode(to_mode)) = <<"j">>

\* a fold with an unregistered identifier
FormatterByModeFailureWitness ==
    op = "fold" /\ error = "ValueError" /\ to_mode = <<"x">>

\* detect_current_mode was handed fold(M, F), M the registered mode of the
\* session and F its formula, which has more to it than "="
DetectedFold ==
    /\ op = "detect" /\ cycles = 1 /\ Len(chain) = 1 /\ IsRegistered(chain[1])
    /\ Normalized(formula) # <<>>
    /\ from_text = fold_formula(create_formatter_by_mode(chain[1]), formula)

\* detect_current_mode was handed a formula on a single line
DetectedFormula ==
    /\ op = "detect"
    /\ StartsWith(from_text, <<"=">>) \/ StartsWith(from_text, ArrayOpen)
    /\ ~Contains(from_text, <<"\n">>)

\* C12: detect_current_mode(fold(M, F)) returns M for every mode M of j, a,
\* p and every formula F, and 'p' for a formula on a single line
DetectionAccurate ==
    /\ DetectedFold => detected = get_mode_code(create_formatter_by_mode(chain[1]))
    /\ DetectedFormula => detected = <<"p">>

\* the text has a comment marker and the words of the header of mode j
HasJavaScriptMarker(T) ==
    /\ Contains(T, <<"/", "/">>)
    /\ Contains(T, <<"J", "a", "v", "a", "S", "c", "r", "i", "p", "t", " ",
                     "s", "y", "n", "t", "a", "x">>)

\* the text has a comment marker and the words of a header of the Excel modes
HasExcelMarker(T) ==
    /\ Contains(T, <<"/", "/">>)
    /\ \/ Contains(T, <<"a", "n", "n", "o", "t", "a", "t", "e", "d", " ",
                        "E", "x", "c", "e", "l", " ", "s", "y", "n", "t", "a", "x">>)
       \/ Contains(T, <<"p", "l", "a", "i", "n", " ",
                        "E", "x", "c", "e", "l", " ", "s", "y", "n", "t", "a", "x">>)
       \/ Contains(T, <<"E", "x", "c", "e", "l", " ", "F", "o", "r", "m", "u", "l", "a">>)

\* a line of the text starts with four spaces or a tab
HasIndentation(T) ==
    \E k \in 1..Len(Split(T)) :
        \/ StartsWith(Split(T)[k], <<" ", " ", " ", " ">>)
        \/ StartsWith(Split(T)[k], <<"\t">>)

\* the text is not blank and has several lines once stripped
IsMultiLine(T) == Contains(Strip(T), <<"\n">>)

\* the text has several lines, no header marker and no indentation
IsUnmarked(T) ==
    /\ IsMultiLine(T)
    /\ ~HasJavaScriptMarker(Strip(T)) /\ ~HasExcelMarker(Strip(T))
    /\ ~HasIndentation(Strip(T))

OperationsTotal ==
    (op \in {"fold", "unfold", "switch", "detect"}
        /\ IsRegistered(from_mode) /\ IsRegistered(to_mode))
        => error = "none"

\* C15: in every mode fold and unfold return the empty string for an empty
\* or whitespace-only input, and unfold of the fold of a bare '=' is '' or '='
BlankInput ==
    /\ (op \in {"fold", "unfold"} /\ error = "none" /\ Strip(from_text) = <<>>)
          => text = <<>>
    /\ (op = "unfold" /\ error = "none" /\ cycles = 1 /\ Len(chain) = 1
            /\ source = <<"=">>)
          => text \in {<<>>, <<"=">>}

\* a whitespace-only text folded to the empty string, which is then unfolded
\* to the empty string
BlankInputWitness ==
    /\ op = "unfold" /\ error = "none" /\ cycles = 1 /\ IsRegistered(mode)
    /\ source = <<" ">>
    /\ from_text = <<>>
    /\ text = <<>>

\* C16: for each registered translator the reverse operation of a cell
\* reference or an operator gives back the token text from its rendering,
\* and the reverse operations leave the rendering of a string literal, a
\* number or an identifier unchanged
TranslatorRoundTrip ==
    op = "translate" =>
        /\ translation.type = "cell_ref"
              => translation.cell_reference = translation.text
        /\ translation.type = "operator"
              => translation.operator = translation.text
        /\ translation.type \in {"string", "number", "identifier"}
              => /\ translation.cell_reference = translation.rendered
                 /\ translation.operator = translation.rendered

\* the texts of the String tokens of a text, in order
StringTokens(T) ==
    With(parse_excel_tokens(T), LAMBDA tokens :
        [k \in 1..Len(Positions(tokens, LAMBDA h : tokens[h].type = "string")) |->
            tokens[Positions(tokens, LAMBDA h : tokens[h].type = "string")[k]].text])

\* C17: for every formula F and mode M the String tokens of
\* unfold(M, fold(M, F)) are the String tokens of F, character for character
StringLiteralsSurvive ==
    (RoundTripDone /\ cycles = 1) => StringTokens(text) = StringTokens(formula)

\* the text that unfold_formula hands to _safe_remove_comments: the stripped
\* text without its array marker lines
CommentInput(T) ==
    With(Split(Strip(T)), LAMBDA lines :
    With(FirstLine(lines, ArrayOpen), LAMBDA open :
    With(IF open # 0 THEN RemoveLine(lines, open) ELSE lines, LAMBDA opened :
    With(IF open # 0 THEN LastLine(opened, ArrayClose) ELSE 0, LAMBDA close :
        Join(IF close # 0 THEN RemoveLine(opened, close) ELSE opened)))))

\* index k of the line lies inside a string literal
InLiteral(line, k) ==
    Cardinality({j \in 1..(k - 1) : line[j] = "\""}) % 2 = 1

\* index k of the line lies behind a comment marker that is not part of a
\* string literal
InComment(line, k) ==
    \E j \in 1..(k - 1) : HasAt(line, <<"/", "/">>, j) /\ ~InLiteral(line, j)

\* number of argument-separator commas of a text: the commas of its lines
\* outside string literals and comments
CodeCommas(T) ==
    With(Split(T), LAMBDA lines :
        Len(Concat([i \in 1..Len(lines) |->
                Positions(lines[i], LAMBDA k :
                    /\ lines[i][k] = ","
                    /\ ~InLiteral(lines[i], k)
                    /\ ~InComment(lines[i], k))])))

\* the line starts, after whitespace, with the comment marker
IsWholeComment(line) == HasAt(line, <<"/", "/">>, SkipSpaces(line, 1))

\* C18: during unfold a line that is a comment in its entirety is dropped, a
\* trailing '//' marker is stripped from a line only if the nearest
\* non-whitespace character before it is not a comma, and the step removes
\* no argument-separator comma
CommaSafeStripping ==
    op = "unfold" =>
        /\ \A i \in 1..Len(Split(safe_remove_comments(CommentInput(from_text)))) :
              ~IsWholeComment(Split(safe_remove_comments(CommentInput(from_text)))[i])
        /\ \A i \in 1..Len(Split(CommentInput(from_text))) :
              LET line == Split(CommentInput(from_text))[i]
                  cut == Len(CleanLine(line)) + 1
              IN  (~IsCommentLine(line) /\ CleanLine(line) # line)
                      => /\ HasAt(line, <<"/", "/">>, SkipSpaces(line, cut))
                         /\ \/ PrevNonSpace(line, SkipSpaces(line, cut)) = 0
                            \/ line[PrevNonSpace(line, SkipSpaces(line, cut))] # ","
        /\ CodeCommas(safe_remove_comments(CommentInput(from_text)))
              = CodeCommas(CommentInput(from_text))

\* a text without its whitespace
Squeezed(s) == SelectSeq(s, LAMBDA c : ~IsSpace(c))

\* index of the comment marker of a line of the form '<argument>, // note',
\* 0 for any other line: the first marker outside string literals, with a
\* comma as the nearest non-whitespace character before it and an argument
\* before the comma
NoteMarker(line) ==
    With(Positions(line, LAMBDA p : HasAt(line, <<"/", "/">>, p) /\ ~InLiteral(line, p)),
         LAMBDA markers :
        IF /\ markers # <<>>
           /\ PrevNonSpace(line, markers[1]) > 1
           /\ line[PrevNonSpace(line, markers[1])] = ","
           /\ Strip(Slice(line, 1, PrevNonSpace(line, markers[1]) - 1)) # <<>>
        THEN markers[1]
        ELSE 0)

\* the latest call unfolded, in mode j or a, a text with such a line
UnfoldedNote ==
    /\ op = "unfold" /\ error = "none"
    /\ IsRegistered(from_mode)
    /\ get_mode_code(create_formatter_by_mode(from_mode)) \in {<<"j">>, <<"a">>}
    /\ \E i \in 1..Len(Split(from_text)) : NoteMarker(Split(from_text)[i]) # 0

\* C19: when a line of the folded text has the form '<argument>, // note',
\* the output of unfold in mode j or a has that argument and its comma, has
\* no '//' and no text of the note, and has the content of every later line
NoteStripped ==
    UnfoldedNote =>
        \A i \in 1..Len(Split(from_text)) :
            LET lines == Split(from_text)
                marker == NoteMarker(lines[i])
            IN  marker # 0 =>
                    /\ Contains(Squeezed(text), Squeezed(Slice(lines[i], 1, marker - 1)))
                    /\ ~Contains(text, <<"/", "/">>)
                    /\ ~Contains(Squeezed(text),
                                 Squeezed(Slice(lines[i], marker + 2, Len(lines[i]))))
                    /\ \A k \in (i + 1)..Len(lines) :
                          ~IsCommentLine(lines[k])
                              => Contains(Squeezed(text), Squeezed(CleanLine(lines[k])))

\* the latest call laid out a function other than IFS, SWITCH and LET
GenericLaidOut ==
    /\ op = "layout"
    /\ Upper(layout.func_name) \notin
           {<<"I","F","S">>, <<"S","W","I","T","C","H">>, <<"L","E","T">>}

\* the argument groups of the call laid out
LaidOutGroups ==
    SelectSeq(split_by_top_level_commas(layout.arg_tokens), LAMBDA group : group # <<>>)

\* the call laid out has one argument group, without Function token, and
\* len(name) + len(rendered argument) + 2 <= 40
KeptInline ==
    /\ Len(LaidOutGroups) = 1
    /\ \A k \in 1..Len(LaidOutGroups[1]) : LaidOutGroups[1][k].type # "function"
    /\ Len(layout.func_name)
           + Len(Strip(tokens_to_string(layout.translator, LaidOutGroups[1]))) + 2 <= 40

\* the line is at the depth: it starts with the indentation of the depth
\* and, whitespace aside, is the content
LineAt(line, depth, content) ==
    /\ StartsWith(line, indent(depth))
    /\ Squeezed(line) = Squeezed(content)

\* the block of the argument group i of the call laid out: the group laid
\* out at the next depth, a comma ending its last line unless i is the
\* last group
ArgumentBlock(i) ==
    With(process_token_sequence(layout.translator, LaidOutGroups[i], layout.base_depth + 1),
         LAMBDA block :
        IF i < Len(LaidOutGroups) THEN AddToLast(block, <<",">>) ELSE block)

\* C20: a generic call with one argument group, no Function token in it and
\* len(name) + len(rendered argument) + 2 <= 40 is one line 'NAME(arg)' at
\* depth d; any other call with an argument is 'NAME(' on a line at depth d,
\* one block per argument at depth d+1 whose last line ends with a comma
\* except for the last argument, and ')' on a line at depth d
GenericLayout ==
    (GenericLaidOut /\ LaidOutGroups # <<>>) =>
        IF KeptInline
        THEN /\ Len(layout.lines) = 1
             /\ LineAt(layout.lines[1], layout.base_depth,
                       layout.func_name \o <<"(">>
                           \o tokens_to_string(layout.translator, LaidOutGroups[1])
                           \o <<")">>)
        ELSE /\ Len(layout.lines) >= 2 + Len(LaidOutGroups)
             /\ LineAt(layout.lines[1], layout.base_depth, layout.func_name \o <<"(">>)
             /\ LineAt(layout.lines[Len(layout.lines)], layout.base_depth, <<")">>)
             /\ SubSeq(layout.lines, 2, Len(layout.lines) - 1)
                    = Concat([i \in 1..Len(LaidOutGroups) |-> ArgumentBlock(i)])
             /\ \A i \in 1..Len(LaidOutGroups) :
                   /\ ArgumentBlock(i) # <<>>
                   /\ \A k \in 1..Len(ArgumentBlock(i)) :
                         \/ ArgumentBlock(i)[k] = <<>>
                         \/ StartsWith(ArgumentBlock(i)[k], indent(layout.base_depth + 1))
                   /\ EndsWith(ArgumentBlock(i)[Len(ArgumentBlock(i))], <<",">>)
                          <=> i < Len(LaidOutGroups)

\* a call with several arguments laid out below the top level, one of its
\* argument blocks having several lines
GenericLayoutWitness ==
    /\ GenericLaidOut
    /\ layout.base_depth >= 1
    /\ Len(LaidOutGroups) >= 2
    /\ Len(layout.lines) > 2 + Len(LaidOutGroups)
    /\ ~KeptInline

\* the latest call laid out a LET
LetLaidOut == op = "layout" /\ Upper(layout.func_name) = <<"L","E","T">>

\* index of the header line 'NAME(' among the lines laid out, 0 if none
HeaderIndex ==
    First(Positions(layout.lines, LAMBDA i :
        Squeezed(layout.lines[i]) = Squeezed(layout.func_name \o <<"(">>)))

\* the line 'name, value' of the k-th pair of argument groups, with a
\* trailing comma when a further group follows
PairLine(groups, k) ==
    indent(layout.base_depth + 1)
        \o Strip(tokens_to_string(layout.translator, groups[2 * k - 1]))
        \o <<",", " ">>
        \o Strip(tokens_to_string(layout.translator, groups[2 * k]))
        \o (IF 2 * k < Len(groups) THEN <<",">> ELSE <<>>)

\* C21: the argument groups of LET are taken two by two, each pair is one
\* line 'name, value' at depth d+1 that ends with a comma if and only if a
\* further pair or the body follows, and a last unpaired group is the body,
\* laid out at depth d+1
LetLayout ==
    LetLaidOut =>
        LET groups == split_by_top_level_commas(layout.arg_tokens)
            pairs == Len(groups) \div 2
            header == HeaderIndex
            last == Len(layout.lines)
        IN  /\ header \in {1, 2}
            /\ last >= header + pairs + 1
            /\ \A k \in 1..pairs : layout.lines[header + k] = PairLine(groups, k)
            /\ IF Len(groups) % 2 = 1
               THEN SubSeq(layout.lines, header + pairs + 1, last - 1)
                        = process_token_sequence(layout.translator, groups[Len(groups)],
                                                 layout.base_depth + 1)
               ELSE last = header + pairs + 1
            /\ LineAt(layout.lines[last], layout.base_depth, <<")">>)

\* a LET with two pairs and a body laid out below the top level
LetLayoutWitness ==
    /\ LetLaidOut
    /\ layout.base_depth >= 1
    /\ Len(split_by_top_level_commas(layout.arg_tokens)) = 5
    /\ Len(layout.lines) >= 5

\* the latest call laid out an IFS or a SWITCH
IfsLaidOut ==
    /\ op = "layout"
    /\ Upper(layout.func_name) \in {<<"I","F","S">>, <<"S","W","I","T","C","H">>}

\* the case/result separator comment at the depth of the argument groups
SeparatorLine ==
    indent(layout.base_depth + 1) \o <<"/", "/", " ">> \o case_result_pair

\* what precedes the block of the i-th argument group: in a comment-bearing
\* mode a separator before the 1st, 3rd, 5th, ... group, itself preceded by
\* a blank line unless it is the first; nothing in plain mode
BeforeGroup(i) ==
    IF layout.translator # "p" /\ i % 2 = 1
    THEN (IF i > 1 THEN << <<>> >> ELSE <<>>) \o << SeparatorLine >>
    ELSE <<>>

\* the block of the i-th argument group: the group laid out at depth d+1,
\* its last line ending with a comma unless the group is the final one
GroupBlock(groups, i) ==
    LET block == process_token_sequence(layout.translator, groups[i], layout.base_depth + 1)
    IN  IF i < Len(groups) /\ block # <<>>
        THEN [block EXCEPT ![Len(block)] = block[Len(block)] \o <<",">>]
        ELSE block

\* C22: between the header and the closing line an IFS or SWITCH has, for
\* every argument group, its own line block at depth d+1; in a
\* comment-bearing mode a case/result separator comment precedes the 1st,
\* 3rd, 5th, ... group, every separator but the first preceded by a blank
\* line; the last line of every group but the final one ends with a comma;
\* in plain mode there is neither separator nor blank line
IfsLayout ==
    IfsLaidOut =>
        LET groups == split_by_top_level_commas(layout.arg_tokens)
            header == HeaderIndex
            last == Len(layout.lines)
        IN  /\ header \in {1, 2}
            /\ last > header
            /\ \A i \in 1..Len(groups) :
                   process_token_sequence(layout.translator, groups[i],
                                          layout.base_depth + 1) # <<>>
            /\ SubSeq(layout.lines, header + 1, last - 1)
                   = Concat([i \in 1..Len(groups) |-> BeforeGroup(i) \o GroupBlock(groups, i)])
            /\ LineAt(layout.lines[last], layout.base_depth, <<")">>)
            /\ layout.translator = "p" =>
                   \A i \in 1..last : /\ layout.lines[i] # <<>>
                                      /\ ~Contains(layout.lines[i], case_result_pair)

\* a SWITCH of five argument groups laid out in a comment-bearing mode
IfsLayoutWitness ==
    /\ IfsLaidOut
    /\ layout.translator # "p"
    /\ Len(split_by_top_level_commas(layout.arg_tokens)) = 5
    /\ Len(Positions(layout.lines, LAMBDA i : layout.lines[i] = SeparatorLine)) = 3
    /\ Len(Positions(layout.lines, LAMBDA i : layout.lines[i] = <<>>)) = 2

\* the call laid out is nested directly inside the case list of an IFS or a
\* SWITCH: the innermost call around it is one of the two
InCaseList ==
    LET tokens == parse_excel_tokens(from_text)
        ends == CallEnds(tokens)
        around == Positions(tokens, LAMBDA g : g < layout.call /\ ends[g] > layout.call)
    IN  /\ around # <<>>
        /\ Upper(tokens[around[Len(around)]].text)
               \in {<<"I","F","S">>, <<"S","W","I","T","C","H">>}

\* the line is the comment of a function called in the text laid out
IsFunctionComment(line) ==
    LET tokens == parse_excel_tokens(from_text)
    IN  \E h \in 1..Len(tokens) :
            /\ tokens[h].type = "function"
            /\ get_function_comment(tokens[h].text) # <<>>
            /\ Strip(line) = <<"/", "/", " ">> \o get_function_comment(tokens[h].text)

\* the comment of the function laid out, at the depth of its header
CommentLine ==
    indent(layout.base_depth) \o <<"/", "/", " ">> \o get_function_comment(layout.func_name)

\* C23: in modes j and a a function laid out over several lines whose
\* comment is not empty has the comment on the line directly before its
\* header, unless it is nested directly inside an IFS or SWITCH case list,
\* where it gets no comment; in plain mode no line is a function comment
FunctionComments ==
    op = "layout" =>
        /\ layout.translator = "p" =>
               \A i \in 1..Len(layout.lines) : ~IsFunctionComment(layout.lines[i])
        /\ /\ layout.translator # "p"
           /\ Len(layout.lines) > 1
           /\ get_function_comment(layout.func_name) # <<>>
           => IF InCaseList
              THEN layout.lines[1] # CommentLine
              ELSE /\ layout.lines[1] = CommentLine
                   /\ HeaderIndex = 2

\* the latest operation was an unfold that returned
Unfolded == op = "unfold" /\ error = "none"

\* no whitespace directly after "(" or directly before ")"
ParensTight(s) ==
    \A i \in 1..(Len(s) - 1) :
        /\ ~(s[i] = "(" /\ IsSpace(s[i + 1]))
        /\ ~(IsSpace(s[i]) /\ s[i + 1] = ")")

\* no run of two or more spaces
SpacesSingle(s) ==
    \A i \in 1..(Len(s) - 1) : ~(s[i] = " " /\ s[i + 1] = " ")

\* every comma is followed by exactly one space and not preceded by a space
CommasSpaced(s) ==
    \A i \in 1..Len(s) :
        s[i] = "," =>
            /\ i < Len(s) /\ s[i + 1] = " "
            /\ i + 2 <= Len(s) => s[i + 2] # " "
            /\ i > 1 => s[i - 1] # " "

\* C24: for every text and mode, what unfold returns has no whitespace
\* directly after "(" or directly before ")", no run of two or more spaces,
\* and every comma followed by exactly one space and never preceded by one
UnfoldNormalized ==
    Unfolded => ParensTight(text) /\ SpacesSingle(text) /\ CommasSpaced(text)

\* C25: unfold is idempotent on its own output: for every mode and text,
\* unfolding what unfold returned gives the same text again; in particular
\* an unfolded array formula '{=body}' comes back as '{=body}'
UnfoldTwice ==
    Unfolded => unfold_formula(create_formatter_by_mode(mode), text) = text

\* how many tokens of the text are the punctuation p
Parens(s, p) ==
    Len(Positions(parse_excel_tokens(s), LAMBDA i :
        parse_excel_tokens(s)[i].text = <<p>>))

\* C26: for a formula whose parentheses do not match, such as a call whose
\* closing ")" is missing, fold followed by unfold adds and drops no token:
\* the unfolded formula has as many "(" and as many ")" as the input
ParenthesesReproduced ==
    (RoundTripDone /\ Parens(formula, "(") # Parens(formula, ")")) =>
        /\ Parens(text, "(") = Parens(formula, "(")
        /\ Parens(text, ")") = Parens(formula, ")")

\* the tokens from the k-th on lie in the body from index i on, one after the
\* other in order, with nothing but whitespace before, between and after them
RECURSIVE TokensCover(_, _, _, _)
TokensCover(body, tokens, k, i) ==
    IF k > Len(tokens)
    THEN SkipSpaces(body, i) > Len(body)
    ELSE /\ HasAt(body, tokens[k].text, SkipSpaces(body, i))
         /\ TokensCover(body, tokens, k + 1, SkipSpaces(body, i) + Len(tokens[k].text))

\* C27: for every body, well-formed or not, the scanner ends, no token is
\* empty or starts or ends with whitespace outside a string literal, the
\* tokens lie in the body one after the other without overlap, and their
\* texts concatenated are the body without the whitespace between tokens, so
\* that every character that is no whitespace belongs to exactly one token
LexerLossless ==
    op = "translate" =>
        LET tokens == parse_excel_tokens(from_text)
        IN  /\ \A k \in 1..Len(tokens) :
                   /\ tokens[k].text # <<>>
                   /\ ~IsSpace(tokens[k].text[1])
                   /\ tokens[k].type # "string" =>
                          \A c \in 1..Len(tokens[k].text) : ~IsSpace(tokens[k].text[c])
            /\ TokensCover(from_text, tokens, 1, 1)
            /\ Squeezed(Concat([k \in 1..Len(tokens) |-> tokens[k].text]))
                   = Squeezed(from_text)

\* a malformed body with whitespace inside a string literal and characters
\* of no token class has been scanned
LexerLosslessWitness ==
    /\ op = "translate"
    /\ \E k \in 1..Len(parse_excel_tokens(from_text)) :
           /\ parse_excel_tokens(from_text)[k].type = "string"
           /\ \E c \in 1..Len(parse_excel_tokens(from_text)[k].text) :
                  parse_excel_tokens(from_text)[k].text[c] = " "
    /\ Len(parse_excel_tokens(from_text)) >= 2

\* the text has no double quote between its first and its last character
NoInnerQuote(t) == \A c \in 2..(Len(t) - 1) : t[c] # "\""

\* the text starts with a quote, ends with another one and has none between
Delimited(t) ==
    Len(t) >= 2 /\ t[1] = "\"" /\ t[Len(t)] = "\"" /\ NoInnerQuote(t)

\* the text starts with a quote, its only one
Unterminated(t) ==
    t[1] = "\"" /\ \A c \in 2..Len(t) : t[c] # "\""

\* C28 as stated: the text of every String token starts with a double
\* quote, ends with a distinct closing double quote and has no other quote
StringTokensDelimited ==
    op = "translate" =>
        \A k \in 1..Len(parse_excel_tokens(from_text)) :
            parse_excel_tokens(from_text)[k].type = "string" =>
                Delimited(parse_excel_tokens(from_text)[k].text)

\* C28, amended: the text of every String token starts with a double quote
\* and has no quote inside; it ends with the closing quote, unless the
\* literal is unterminated, and then the token is the last one, runs to the
\* end of the input and has no closing quote
StringTokensDelimitedIfClosed ==
    op = "translate" =>
        LET tokens == parse_excel_tokens(from_text)
        IN  \A k \in 1..Len(tokens) :
                tokens[k].type = "string" =>
                    \/ Delimited(tokens[k].text)
                    \/ /\ Unterminated(tokens[k].text)
                       /\ k = Len(tokens)
                       /\ EndsWith(from_text, tokens[k].text)

\* the scanner has met an unterminated string literal of some length
StringTokensWitness ==
    /\ op = "translate"
    /\ \E k \in 1..Len(parse_excel_tokens(from_text)) :
           /\ parse_excel_tokens(from_text)[k].type = "string"
           /\ Unterminated(parse_excel_tokens(from_text)[k].text)
           /\ Len(parse_excel_tokens(from_text)[k].text) >= 2

\* C29: a word of the formula is a Function token if and only if the whole
\* word is, whatever its case, one of the function names; hence every name
\* of the set followed by "(" is laid out by a function policy and no other
\* word is
FunctionClassification ==
    op = "translate" =>
        \A k \in 1..Len(parse_excel_tokens(from_text)) :
            parse_excel_tokens(from_text)[k].type \in {"function", "cell_ref", "number", "identifier"} =>
                (parse_excel_tokens(from_text)[k].type = "function"
                    <=> Upper(parse_excel_tokens(from_text)[k].text) \in FunctionNames)

\* the session has applied auto_format_with_mode, in a registered mode, to a
\* single-line formula that starts with "="
AutoToggled ==
    /\ op = "auto" /\ error = "none"
    /\ mode \in {<<"j">>, <<"a">>, <<"p">>}
    /\ Len(Split(formula)) = 1
    /\ StartsWith(formula, <<"=">>)

\* C30: for every mode M of j, a, p and every single-line formula F that
\* starts with "=", auto_format_with_mode(F, M) is fold(M, F), and applied to
\* that result it is unfold(M, fold(M, F)): the toggle does not stay on the
\* folded text
AutoToggleAlternates ==
    AutoToggled =>
        /\ cycles = 1 => text = fold_formula(create_formatter_by_mode(mode), formula)
        /\ cycles = 2 =>
               /\ from_text = fold_formula(create_formatter_by_mode(mode), formula)
               /\ text = unfold_formula(create_formatter_by_mode(mode), from_text)

====
